---- MODULE Spec2Model ----
(***************************************************************************)
(* Model of the scheduled balance-settlement engine of BeeCoinBackend:     *)
(* CronService (src/src/services/cronService.ts, the class that starts at  *)
(* line 338), the profit-rule routes (src/dist/routes/profitRules.js), the *)
(* ProfitRule / Settings / User schemas and the toggle-ai route.           *)
(*                                                                         *)
(* Conventions                                                             *)
(*   - an optional value (a field that may be undefined) is <<>> or <<v>>; *)
(*   - a string the code parses (the "HH:mm" run time) is a tuple of       *)
(*     one-character strings, so that parsing and formatting are computed; *)
(*   - a JavaScript number that may be fractional (algoProfitPercentage)   *)
(*     is an exact fraction [num, den] in lowest terms;                    *)
(*   - an entry of a marketOffDays list is a JavaScript number too, so it  *)
(*     is a fraction as well: RatInt(6) is Saturday;                       *)
(*   - the wall clock is in minutes since a Sunday 00:00 UTC.              *)
(***************************************************************************)
EXTENDS Integers, Sequences, FiniteSets, TLC

VARIABLES
    users,            \* User collection: account id -> document
    rules,            \* ProfitRule collection: set of documents
    nextRuleId,       \* next _id the ProfitRule collection hands out
    settings,         \* Settings collection: <<>> or <<document>>
    timeZone,         \* CronService.timeZone
    marketOffDays,    \* CronService.marketOffDays
    balanceUpdateJob, \* CronService.balanceUpdateJob: <<>> or <<task>>
    deactivationJob,  \* CronService.deactivationJob: <<>> or <<task>>
    clock,            \* wall clock, minutes since Sunday 00:00 UTC
    runs,             \* settlement / deactivation runs, in start order
    calls,            \* initScheduledJobs / updateCronSchedule calls, in start order
    firings,          \* log of cron callbacks invoked: job, instant, skipped
    tasks,            \* node-cron: the scheduled tasks that are live (not stopped)
    response,         \* last HTTP response of the rule routes
    requests,         \* withdrawal / deposit requests, in arrival order
    used              \* how much of each bound the behaviour has used

vars == <<users, rules, nextRuleId, settings, timeZone, marketOffDays,
          balanceUpdateJob, deactivationJob, clock, runs, calls, firings,
          tasks, response, requests, used>>

-----------------------------------------------------------------------------
(* Bounds of the model *)

NumAccounts == 2
MaxRuns == 2
MaxCalls == 2
MaxTicks == 5
MaxToggles == 1
MaxRules == 2
MaxRequests == 2
MaxStops == 1
MaxOffDayPuts == 1
MaxProfit == 10
MaxBalance == 200

Accounts == 1..NumAccounts

-----------------------------------------------------------------------------
(* Generic helpers *)

None == <<>>
Some(x) == <<x>>
IsSome(o) == o # <<>>
Val(o) == o[1]

Abs(n) == IF n < 0 THEN -n ELSE n

Min(S) == CHOOSE x \in S : \A y \in S : x <= y

RECURSIVE Gcd(_, _)
Gcd(a, b) == IF b = 0 THEN a ELSE Gcd(b, a % b)

\* Exact fractions in lowest terms with a positive denominator.
Rat(n, d) ==
    LET s == IF d < 0 THEN -1 ELSE 1
        g == Gcd(Abs(n), Abs(d))
    IN  [num |-> (s * n) \div g, den |-> (s * d) \div g]

RatInt(n) == [num |-> n, den |-> 1]
RatAdd(a, b) == Rat(a.num * b.den + b.num * a.den, a.den * b.den)
RatMulInt(a, k) == Rat(a.num * k, a.den)
RatDivInt(a, k) == Rat(a.num, a.den * k)
RatLess(a, b) == a.num * b.den < b.num * a.den

\* n / d rounded to the nearest integer, halves away from zero (d # 0).
RoundDiv(n, d) ==
    LET s == IF (n < 0) # (d < 0) THEN -1 ELSE 1
    IN  s * ((2 * Abs(n) + Abs(d)) \div (2 * Abs(d)))

-----------------------------------------------------------------------------
(* Strings the code parses and formats *)

DigitChars == <<"0", "1", "2", "3", "4", "5", "6", "7", "8", "9">>

IsDigit(c) == \E i \in 1..10 : DigitChars[i] = c
DigitVal(c) == (CHOOSE i \in 1..10 : DigitChars[i] = c) - 1

\* Number.prototype.toString() of a non-negative integer.
RECURSIVE NumToString(_)
NumToString(n) ==
    IF n < 10 THEN <<DigitChars[n + 1]>>
    ELSE NumToString(n \div 10) \o <<DigitChars[(n % 10) + 1]>>

\* String.prototype.padStart(2, '0')
PadStart2(s) == IF Len(s) < 2 THEN <<"0">> \o s ELSE s

\* Number(s) of a string of decimal digits.
RECURSIVE StringToNum(_)
StringToNum(s) ==
    IF Len(s) = 0 THEN 0
    ELSE 10 * StringToNum(SubSeq(s, 1, Len(s) - 1)) + DigitVal(s[Len(s)])

\* /^([0-1]?[0-9]|2[0-3]):[0-5][0-9]$/.test(s)
TimeRegexTest(s) ==
    \E h \in 1..2 :
        /\ Len(s) = h + 3
        /\ s[h + 1] = ":"
        /\ \/ h = 1 /\ IsDigit(s[1])
           \/ h = 2 /\ s[1] \in {"0", "1"} /\ IsDigit(s[2])
           \/ h = 2 /\ s[1] = "2" /\ s[2] \in {"0", "1", "2", "3"}
        /\ s[h + 2] \in {"0", "1", "2", "3", "4", "5"}
        /\ IsDigit(s[h + 3])

\* time.split(':').map(Number) of a string the regex accepts.
ParseTime(s) ==
    LET c == CHOOSE i \in 1..Len(s) : s[i] = ":"
    IN  [hours   |-> StringToNum(SubSeq(s, 1, c - 1)),
         minutes |-> StringToNum(SubSeq(s, c + 1, Len(s)))]

formatTime(hours, minutes) ==
    LET totalMinutes == hours * 60 + minutes
        newHours     == (totalMinutes \div 60) % 24
        newMinutes   == totalMinutes % 60
    IN  PadStart2(NumToString(newHours)) \o <<":">> \o PadStart2(NumToString(newMinutes))

TimeString(h, m) == PadStart2(NumToString(h)) \o <<":">> \o PadStart2(NumToString(m))

-----------------------------------------------------------------------------
(* Time zones and the calendar (moment-timezone) *)

TimeZoneNames == {"UTC", "Asia/Dhaka"}

\* Offset from UTC in minutes; neither zone has daylight saving time.
UtcOffset(tz) == IF tz = "Asia/Dhaka" THEN 6 * 60 ELSE 0

MinutesPerDay == 24 * 60

\* moment(at).tz(tz).day(): 0 = Sunday ... 6 = Saturday
LocalDay(at, tz) == ((at + UtcOffset(tz)) \div MinutesPerDay) % 7

\* hour * 60 + minute of moment(at).tz(tz)
LocalMinuteOfDay(at, tz) == (at + UtcOffset(tz)) % MinutesPerDay

Includes(arr, x) == \E i \in 1..Len(arr) : arr[i] = x

\* Variant of isMarketOffDay that numbers the days with isoWeekday(): 1 = Monday
\* ... 7 = Sunday.
isMarketOffDayIso(at, tz, offDays) ==
    Includes(offDays, RatInt(IF LocalDay(at, tz) = 0 THEN 7 ELSE LocalDay(at, tz)))

isMarketOffDay(at, tz, offDays) == Includes(offDays, RatInt(LocalDay(at, tz)))

-----------------------------------------------------------------------------
(* ProfitRule lookup and the percentage *)

\* The documents ProfitRule.findOne({minBalance <= b, maxBalance >= b,
\* isActive}).sort({minBalance: 1}) can return: the sort orders by minBalance
\* only, so among matching rules with the same lowest minBalance the store
\* is free to return any one.
FindOneRule(table, balance) ==
    LET matching == {r \in table : /\ r.minBalance <= balance
                                    /\ r.maxBalance >= balance
                                    /\ r.isActive}
    IN  {r \in matching : \A q \in matching : r.minBalance <= q.minBalance}

calculateProfit(table, balance) ==
    IF FindOneRule(table, balance) # {}
    THEN {[profit |-> r.profit, ruleId |-> Some(r.id)] : r \in FindOneRule(table, balance)}
    ELSE {[profit |-> 0, ruleId |-> None]}

\* Variant of calculateProfitPercentage that cuts the percentage after its
\* second decimal instead of rounding it.
calculateProfitPercentageCut(profitAmount, previousBalance) ==
    IF previousBalance = 0
    THEN RatInt(IF profitAmount > 0 THEN 100 ELSE (IF profitAmount < 0 THEN -100 ELSE 0))
    ELSE LET n == profitAmount * 100 * 100
             s == IF (n < 0) # (previousBalance < 0) THEN -1 ELSE 1
         IN  Rat(s * (Abs(n) \div Abs(previousBalance)), 100)

\* Number(((profitAmount / previousBalance) * 100).toFixed(2)), as a fraction.
\* toFixed rounds the magnitude to the nearest hundredth and, of two equally
\* near ones, takes the larger.
calculateProfitPercentage(profitAmount, previousBalance) ==
    IF previousBalance = 0
    THEN RatInt(IF profitAmount > 0 THEN 100 ELSE (IF profitAmount < 0 THEN -100 ELSE 0))
    ELSE Rat(RoundDiv(profitAmount * 100 * 100, previousBalance), 100)

-----------------------------------------------------------------------------
(* Settlement: CronService.updateActiveUsersBalance *)

\* What User.find({aiStatus: true}) returns: the matching documents as they
\* are at the time of the query, in collection order.
RECURSIVE FindActive(_, _)
FindActive(coll, from) ==
    IF from > NumAccounts THEN <<>>
    ELSE (IF coll[from].aiStatus
          THEN <<[id                    |-> from,
                  balance               |-> coll[from].balance,
                  algoProfitAmount      |-> coll[from].algoProfitAmount,
                  algoProfitPercentage  |-> coll[from].algoProfitPercentage,
                  lastProfitCalculation |-> coll[from].lastProfitCalculation]>>
          ELSE <<>>) \o FindActive(coll, from + 1)

NewRun(kind, trigger, pc, at) ==
    [kind |-> kind, trigger |-> trigger, pc |-> pc, startedAt |-> at,
     activeUsers |-> <<>>, idx |-> 0, profit |-> 0, ruleId |-> None,
     usersUpdated |-> 0, totalProfitDistributed |-> 0]

\* The synchronous head of updateActiveUsersBalance: the off-day double check,
\* then the User.find query is issued.
StartBalanceRun(trigger, at) ==
    IF isMarketOffDay(at, timeZone, marketOffDays)
    THEN NewRun("balance", trigger, "skipped", at)
    ELSE NewRun("balance", trigger, "find", at)

\* The synchronous head of deactivateAllAIStatus: the User.find query is issued.
\* Of the documents the query returns the run keeps the ids (the code reads
\* only their number).
StartDeactivationRun(trigger, at) == NewRun("deactivation", trigger, "find", at)

\* Where the for-loop over activeUsers goes after the user at run.idx.
NextUser(run) ==
    IF run.idx < Len(run.activeUsers)
    THEN [run EXCEPT !.idx = run.idx + 1, !.pc = "calc"]
    ELSE [run EXCEPT !.pc = "done", !.activeUsers = <<>>, !.idx = 0, !.profit = 0, !.ruleId = None]

\* Variant of SettlementTransaction that records the signed profit as the amount.
SettlementTransactionSigned(profit, ruleId, at) ==
    [amount      |-> profit,
     type        |-> IF profit > 0 THEN "credit" ELSE "debit",
     description |-> IF profit > 0 THEN "Daily AI trading profit"
                                   ELSE "Daily AI trading loss",
     ruleId      |-> ruleId,
     createdAt   |-> at]

SettlementTransaction(profit, ruleId, at) ==
    [amount      |-> Abs(profit),
     type        |-> IF profit > 0 THEN "credit" ELSE "debit",
     description |-> IF profit > 0 THEN "Daily AI trading profit"
                                   ELSE "Daily AI trading loss",
     ruleId      |-> ruleId,
     createdAt   |-> at]

\* Variant of NewAlgoProfitAmount that stores the profit of this cycle only, as
\* the earlier version of the loop did (cronService.ts line 221).
LatestProfitAmount(user, profit) == profit

\* The $set of the profit branch, computed from the document read by User.find.
NewAlgoProfitAmount(user, profit) == user.algoProfitAmount + profit

NewAlgoProfitPercentage(user, profit) ==
    LET profitPercentage  == calculateProfitPercentage(profit, user.balance)
        totalProfitEvents == (IF IsSome(user.lastProfitCalculation) THEN 1 ELSE 0) + 1
    IN  RatDivInt(RatAdd(RatMulInt(user.algoProfitPercentage, totalProfitEvents - 1),
                         profitPercentage),
                  totalProfitEvents)

\* Variant of ApplyProfit whose update has the $push and the $set but no $inc.
ApplyProfitNoInc(doc, user, profit, ruleId, at) ==
    [doc EXCEPT !.algoProfitAmount      = NewAlgoProfitAmount(user, profit),
                !.algoProfitPercentage  = NewAlgoProfitPercentage(user, profit),
                !.lastProfitCalculation = Some(at),
                !.transactions          = Append(doc.transactions,
                                                 SettlementTransaction(profit, ruleId, at))]

\* findByIdAndUpdate of the profit branch, applied to the stored document.
ApplyProfit(doc, user, profit, ruleId, at) ==
    [doc EXCEPT !.balance               = doc.balance + profit,
                !.algoProfitAmount      = NewAlgoProfitAmount(user, profit),
                !.algoProfitPercentage  = NewAlgoProfitPercentage(user, profit),
                !.lastProfitCalculation = Some(at),
                !.transactions          = Append(doc.transactions,
                                                 SettlementTransaction(profit, ruleId, at))]

\* Variant of ApplyNoProfit that also resets both profit fields, as the earlier
\* version of the loop did (cronService.ts lines 236-244).
ApplyNoProfitReset(doc, at) ==
    [doc EXCEPT !.algoProfitAmount      = 0,
                !.algoProfitPercentage  = RatInt(0),
                !.lastProfitCalculation = Some(at)]

\* findByIdAndUpdate of the zero branch.
ApplyNoProfit(doc, at) == [doc EXCEPT !.lastProfitCalculation = Some(at)]

unchangedScheduler ==
    UNCHANGED <<settings, timeZone, marketOffDays, balanceUpdateJob,
                deactivationJob, calls, firings, tasks>>

unchangedRules == UNCHANGED <<rules, nextRuleId, response, requests>>

manualBalanceUpdate ==
    /\ Len(runs) < MaxRuns
    /\ runs' = Append(runs, StartBalanceRun("manual", clock))
    /\ UNCHANGED <<users, clock, used>>
    /\ unchangedScheduler /\ unchangedRules

FindActiveUsers(r) ==
    /\ runs[r].kind = "balance" /\ runs[r].pc = "find"
    /\ LET found == FindActive(users, 1)
       IN  runs' = [runs EXCEPT ![r] =
                IF Len(found) = 0
                THEN [@ EXCEPT !.pc = "done"]
                ELSE [@ EXCEPT !.activeUsers = found, !.idx = 1, !.pc = "calc"]]
    /\ UNCHANGED <<users, clock, used>>
    /\ unchangedScheduler /\ unchangedRules

CalcProfit(r) ==
    /\ runs[r].kind = "balance" /\ runs[r].pc = "calc"
    /\ \E res \in calculateProfit(rules, runs[r].activeUsers[runs[r].idx].balance) :
          runs' = [runs EXCEPT ![r] =
                [@ EXCEPT !.profit = res.profit, !.ruleId = res.ruleId, !.pc = "update"]]
    /\ UNCHANGED <<users, clock, used>>
    /\ unchangedScheduler /\ unchangedRules

\* Variant of RuleLookupFails in which calculateProfit has no try/catch of its
\* own and the error ends the cycle.
RuleLookupThrows(r) ==
    /\ runs[r].kind = "balance" /\ runs[r].pc = "calc"
    /\ runs' = [runs EXCEPT ![r] =
            [@ EXCEPT !.pc = "done", !.activeUsers = <<>>, !.idx = 0,
                      !.profit = 0, !.ruleId = None]]
    /\ UNCHANGED <<users, clock, used>>
    /\ unchangedScheduler /\ unchangedRules

\* ProfitRule.findOne rejects (a store error): the catch of calculateProfit
\* returns {profit: 0} and the loop body goes on with that result.
RuleLookupFails(r) ==
    /\ runs[r].kind = "balance" /\ runs[r].pc = "calc"
    /\ runs' = [runs EXCEPT ![r] =
            [@ EXCEPT !.profit = 0, !.ruleId = None, !.pc = "update"]]
    /\ UNCHANGED <<users, clock, used>>
    /\ unchangedScheduler /\ unchangedRules

\* The body of the loop after calculateProfit: one findByIdAndUpdate, of the
\* profit branch or of the zero branch; updatedUser is the stored document.
SettleUser(r) ==
    /\ runs[r].kind = "balance" /\ runs[r].pc = "update"
    /\ LET run  == runs[r]
           user == run.activeUsers[run.idx]
       IN  IF run.profit # 0
           THEN /\ users' = [users EXCEPT ![user.id] =
                        ApplyProfit(@, user, run.profit, run.ruleId, clock)]
                /\ runs' = [runs EXCEPT ![r] =
                        NextUser([run EXCEPT
                            !.usersUpdated = run.usersUpdated + 1,
                            !.totalProfitDistributed =
                                run.totalProfitDistributed + run.profit])]
           ELSE /\ users' = [users EXCEPT ![user.id] = ApplyNoProfit(@, clock)]
                /\ runs' = [runs EXCEPT ![r] = NextUser(run)]
    /\ UNCHANGED <<clock, used>>
    /\ unchangedScheduler /\ unchangedRules

\* Variant of StoreUpdateFails in which the error leaves the loop, as it would
\* if the try/catch enclosed the for statement.
StoreUpdateAborts(r) ==
    /\ runs[r].kind = "balance" /\ runs[r].pc = "update"
    /\ runs' = [runs EXCEPT ![r] =
            [@ EXCEPT !.pc = "done", !.activeUsers = <<>>, !.idx = 0,
                      !.profit = 0, !.ruleId = None]]
    /\ UNCHANGED <<users, clock, used>>
    /\ unchangedScheduler /\ unchangedRules

\* The findByIdAndUpdate of the loop body rejects (a store error): the document
\* is not written, the catch of the loop body logs the error and the loop goes
\* on with the next user.
StoreUpdateFails(r) ==
    /\ runs[r].kind = "balance" /\ runs[r].pc = "update"
    /\ runs' = [runs EXCEPT ![r] = NextUser(@)]
    /\ UNCHANGED <<users, clock, used>>
    /\ unchangedScheduler /\ unchangedRules

-----------------------------------------------------------------------------
(* Deactivation: CronService.deactivateAllAIStatus *)

DeactivationTransaction(at) ==
    [amount      |-> 0,
     type        |-> "system",
     description |-> "AI auto-deactivated after daily balance update",
     ruleId      |-> None,
     createdAt   |-> at]

\* Variant of UpdateManyDeactivate without the $push of the ledger entry.
UpdateManyNoLedger(coll, at) ==
    [a \in Accounts |->
        IF coll[a].aiStatus THEN [coll[a] EXCEPT !.aiStatus = FALSE] ELSE coll[a]]

\* Variant of UpdateManyDeactivate whose $push puts the entry at the head of
\* the array ($position: 0).
UpdateManyAtHead(coll, at) ==
    [a \in Accounts |->
        IF coll[a].aiStatus
        THEN [coll[a] EXCEPT !.aiStatus = FALSE,
                             !.transactions = <<DeactivationTransaction(at)>> \o @]
        ELSE coll[a]]

\* User.updateMany({aiStatus: true}, {$set: {aiStatus: false}, $push: ...})
UpdateManyDeactivate(coll, at) ==
    [a \in Accounts |->
        IF coll[a].aiStatus
        THEN [coll[a] EXCEPT !.aiStatus = FALSE,
                             !.transactions = Append(@, DeactivationTransaction(at))]
        ELSE coll[a]]

manualAIDeactivation ==
    /\ Len(runs) < MaxRuns
    /\ runs' = Append(runs, StartDeactivationRun("manual", clock))
    /\ UNCHANGED <<users, clock, used>>
    /\ unchangedScheduler /\ unchangedRules

DeactivationFind(r) ==
    /\ runs[r].kind = "deactivation" /\ runs[r].pc = "find"
    /\ LET found == FindActive(users, 1)
       IN  runs' = [runs EXCEPT ![r] =
                IF Len(found) = 0
                THEN [@ EXCEPT !.pc = "done"]
                ELSE [@ EXCEPT !.pc = "updateMany",
                               !.activeUsers = [i \in 1..Len(found) |-> [id |-> found[i].id]]]]
    /\ UNCHANGED <<users, clock, used>>
    /\ unchangedScheduler /\ unchangedRules

DeactivationUpdateMany(r) ==
    /\ runs[r].kind = "deactivation" /\ runs[r].pc = "updateMany"
    /\ users' = UpdateManyDeactivate(users, clock)
    /\ runs' = [runs EXCEPT ![r] = [@ EXCEPT !.pc = "done"]]
    /\ UNCHANGED <<clock, used>>
    /\ unchangedScheduler /\ unchangedRules

-----------------------------------------------------------------------------
(* PATCH /toggle-ai of routes/user.ts *)

ToggleAI(a) ==
    /\ used.toggles < MaxToggles
    /\ users' = [users EXCEPT ![a] = [@ EXCEPT !.aiStatus = ~@]]
    /\ used' = [used EXCEPT !.toggles = @ + 1]
    /\ UNCHANGED <<clock, runs>>
    /\ unchangedScheduler /\ unchangedRules

-----------------------------------------------------------------------------
(* Other writers of the balance: the withdrawal and deposit routes *)

NewRequest(op, account, amount, balance, pc, status, of) ==
    [op |-> op, account |-> account, amount |-> amount, balance |-> balance,
     pc |-> pc, status |-> status, of |-> of]

unchangedByRequests ==
    /\ UNCHANGED <<runs, clock, used, rules, nextRuleId, response>>
    /\ unchangedScheduler

\* POST /api/withdrawals up to `await user.save()`: the amount check, the read
\* of the user document and the balance checks.
CreateWithdrawal(a, amount) ==
    /\ Len(requests) < MaxRequests
    /\ LET balance == users[a].balance
           refused == \/ amount < 10
                      \/ balance < 20
                      \/ balance < amount
                      \/ balance <= 10
                      \/ (balance - amount < 10 /\ balance - amount > 0)
       IN  requests' = Append(requests,
                IF refused
                THEN NewRequest("withdraw", a, amount, balance, "done", "refused", 0)
                ELSE NewRequest("withdraw", a, amount, balance, "save", "none", 0))
    /\ UNCHANGED users
    /\ unchangedByRequests

\* user.balance -= amount; await user.save(): the save writes the balance the
\* route computed from the document it read ($set); then the Withdrawal
\* document is created with status pending and the route answers 201.
SaveWithdrawal(q) ==
    /\ requests[q].op = "withdraw" /\ requests[q].pc = "save"
    /\ users' = [users EXCEPT ![requests[q].account] =
            [@ EXCEPT !.balance = requests[q].balance - requests[q].amount]]
    /\ requests' = [requests EXCEPT ![q] = [@ EXCEPT !.pc = "done", !.status = "pending"]]
    /\ unchangedByRequests

\* PATCH /api/withdrawals/:id/reject up to `await user.save()`: the withdrawal
\* is pending, the user document is read.
RejectWithdrawal(q) ==
    /\ Len(requests) < MaxRequests
    /\ requests[q].op = "withdraw" /\ requests[q].status = "pending"
    /\ requests' = Append(requests,
            NewRequest("reject", requests[q].account, requests[q].amount,
                       users[requests[q].account].balance, "save", "none", q))
    /\ UNCHANGED users
    /\ unchangedByRequests

\* user.balance += withdrawal.amount; await user.save(); the withdrawal becomes
\* rejected and the route answers 200.
SaveRejection(j) ==
    /\ requests[j].op = "reject" /\ requests[j].pc = "save"
    /\ users' = [users EXCEPT ![requests[j].account] =
            [@ EXCEPT !.balance = requests[j].balance + requests[j].amount]]
    /\ requests' = [requests EXCEPT ![j] = [@ EXCEPT !.pc = "done", !.status = "applied"],
                                    ![requests[j].of] = [@ EXCEPT !.status = "rejected"]]
    /\ unchangedByRequests

\* PATCH /api/deposits/:id/approve of a pending deposit: one findByIdAndUpdate
\* with $inc of the balance.
ApproveDeposit(a, amount) ==
    /\ Len(requests) < MaxRequests
    /\ users' = [users EXCEPT ![a] = [@ EXCEPT !.balance = @ + amount]]
    /\ requests' = Append(requests,
            NewRequest("deposit", a, amount, users[a].balance, "done", "approved", 0))
    /\ unchangedByRequests

-----------------------------------------------------------------------------
(* The scheduler: node-cron tasks, initScheduledJobs, updateCronSchedule *)

DefaultScheduleTime == <<"0", "6", ":", "0", "0">>
DefaultTimeZone == "Asia/Dhaka"
DefaultMarketOffDays == <<RatInt(0), RatInt(6)>>

DayNames == <<"Sunday", "Monday", "Tuesday", "Wednesday", "Thursday", "Friday", "Saturday">>
getDayName(dayNumber) ==
    IF dayNumber.den = 1 /\ dayNumber.num \in 0..6
    THEN DayNames[dayNumber.num + 1]
    ELSE "undefined"

\* The cron expression `${minutes} ${hours} * * *` of scheduleBalanceUpdateJob.
BalanceCron(hours, minutes) == [minute |-> minutes, hour |-> hours]

\* Variant of DeactivationCron without the reduction of the hour modulo 24.
DeactivationCronNoWrap(hours, minutes) ==
    LET deactivationMinutes == minutes + 1
        deactivationHours   == IF deactivationMinutes >= 60 THEN hours + 1 ELSE hours
    IN  [minute |-> deactivationMinutes % 60, hour |-> deactivationHours]

\* The cron expression `${finalMinutes} ${finalHours} * * *` of scheduleDeactivationJob.
DeactivationCron(hours, minutes) ==
    LET deactivationMinutes == minutes + 1
        deactivationHours   == IF deactivationMinutes >= 60 THEN hours + 1 ELSE hours
        finalMinutes        == deactivationMinutes % 60
        finalHours          == deactivationHours % 24
    IN  [minute |-> finalMinutes, hour |-> finalHours]

\* Variant of StopTask that leaves the current task running.
StopTaskOmitted(live, job) == live

\* task.stop() of the task a job field refers to, if any.
StopTask(live, job) == IF IsSome(job) THEN {t \in live : t.id # Val(job)} ELSE live

\* cron.schedule(expr, callback, {timezone}): a new live task.
NewTask(id, job, expr, tz) ==
    [id |-> id, job |-> job, minute |-> expr.minute, hour |-> expr.hour, timezone |-> tz]

\* scheduleBalanceUpdateJob(hours, minutes); scheduleDeactivationJob(hours, minutes)
\* with this.timeZone = tz: each stops the job's current task and arms a new one.
ArmBothJobs(hours, minutes, tz) ==
    LET balanceId      == used.tasksCreated + 1
        deactivationId == used.tasksCreated + 2
    IN  /\ tasks' = StopTask(StopTask(tasks, balanceUpdateJob), deactivationJob)
                     \cup {NewTask(balanceId, "balance", BalanceCron(hours, minutes), tz),
                           NewTask(deactivationId, "deactivation",
                                   DeactivationCron(hours, minutes), tz)}
        /\ balanceUpdateJob' = Some(balanceId)
        /\ deactivationJob' = Some(deactivationId)
        /\ used' = [used EXCEPT !.tasksCreated = @ + 2]

\* `alone`: no other call is in flight when this one starts.
NewCall(op, pc, time, tz, offDays) ==
    [op |-> op, pc |-> pc, time |-> time, timeZone |-> tz, marketOffDays |-> offDays,
     doc |-> None, result |-> None,
     alone |-> \A k \in 1..Len(calls) : calls[k].pc = "done"]

\* index.ts: once the database is connected the process calls initScheduledJobs
\* and then listens; this call is in flight when the first request arrives.
StartupCall ==
    [op |-> "init", pc |-> "store", time |-> None, timeZone |-> None,
     marketOffDays |-> None, doc |-> None, result |-> None, alone |-> TRUE]

unchangedAccounts == UNCHANGED <<users, runs>>

\* initScheduledJobs up to its await: Settings.findOne().sort({createdAt: -1}) is issued.
initScheduledJobs ==
    /\ Len(calls) < MaxCalls
    /\ calls' = Append(calls, NewCall("init", "store", None, None, None))
    /\ UNCHANGED <<settings, timeZone, marketOffDays, balanceUpdateJob, deactivationJob,
                   clock, firings, tasks, used>>
    /\ unchangedAccounts /\ unchangedRules

\* The store answers the findOne.
InitFindSettings(c) ==
    /\ calls[c].op = "init" /\ calls[c].pc = "store"
    /\ calls' = [calls EXCEPT ![c] = [@ EXCEPT !.doc = settings, !.pc = "resume"]]
    /\ UNCHANGED <<settings, timeZone, marketOffDays, balanceUpdateJob, deactivationJob,
                   clock, firings, tasks, used>>
    /\ unchangedAccounts /\ unchangedRules

\* initScheduledJobs after its await.
InitResume(c) ==
    /\ calls[c].op = "init" /\ calls[c].pc = "resume"
    /\ LET doc          == calls[c].doc
           scheduleTime == IF IsSome(doc) THEN Val(doc).cronScheduleTime
                                          ELSE DefaultScheduleTime
           tz           == IF IsSome(doc) THEN Val(doc).timeZone ELSE DefaultTimeZone
           parsed       == ParseTime(scheduleTime)
       IN  /\ timeZone' = tz
           /\ marketOffDays' = IF IsSome(doc) THEN Val(doc).marketOffDays
                                              ELSE DefaultMarketOffDays
           /\ ArmBothJobs(parsed.hours, parsed.minutes, tz)
    /\ calls' = [calls EXCEPT ![c] = [@ EXCEPT !.pc = "done"]]
    /\ UNCHANGED <<settings, clock, firings>>
    /\ unchangedAccounts /\ unchangedRules

\* Settings.findOne rejects: the catch block arms both jobs at 06:00 with
\* this.timeZone and this.marketOffDays as they are.
InitFindFails(c) ==
    /\ calls[c].op = "init" /\ calls[c].pc = "store"
    /\ timeZone \in TimeZoneNames
    /\ ArmBothJobs(6, 0, timeZone)
    /\ calls' = [calls EXCEPT ![c] =
            [@ EXCEPT !.pc = "done", !.result = Some([success |-> FALSE])]]
    /\ UNCHANGED <<settings, timeZone, marketOffDays, clock, firings>>
    /\ unchangedAccounts /\ unchangedRules

\* initScheduledJobs after its await when cron.schedule throws on the stored
\* timeZone (see UpdateArmFails): the fields were assigned and the settlement
\* task stopped; the catch block calls scheduleBalanceUpdateJob(6, 0), in which
\* cron.schedule throws again on this.timeZone, and the exception leaves
\* initScheduledJobs with no job armed by it.
InitArmFails(c) ==
    /\ calls[c].op = "init" /\ calls[c].pc = "resume"
    /\ IsSome(calls[c].doc)
    /\ Val(calls[c].doc).timeZone \notin TimeZoneNames
    /\ timeZone' = Val(calls[c].doc).timeZone
    /\ marketOffDays' = Val(calls[c].doc).marketOffDays
    /\ tasks' = StopTask(tasks, balanceUpdateJob)
    /\ calls' = [calls EXCEPT ![c] = [@ EXCEPT !.pc = "rejected"]]
    /\ UNCHANGED <<settings, balanceUpdateJob, deactivationJob, clock, firings, used>>
    /\ unchangedAccounts /\ unchangedRules

\* The validation at the head of updateCronSchedule.
ValidSchedule(time, offDays) ==
    /\ TimeRegexTest(time)
    /\ IsSome(offDays) =>
           {i \in 1..Len(Val(offDays)) : \/ RatLess(Val(offDays)[i], RatInt(0))
                                         \/ RatLess(RatInt(6), Val(offDays)[i])} = {}

\* updateCronSchedule up to its await: validation, then findOneAndUpdate is issued.
updateCronSchedule(time, tz, offDays) ==
    /\ Len(calls) < MaxCalls
    /\ calls' = Append(calls,
            IF ValidSchedule(time, offDays)
            THEN NewCall("update", "store", Some(time), Some(tz), offDays)
            ELSE [NewCall("update", "done", Some(time), Some(tz), offDays)
                     EXCEPT !.result = Some([success |-> FALSE])])
    /\ UNCHANGED <<settings, timeZone, marketOffDays, balanceUpdateJob, deactivationJob,
                   clock, firings, tasks, used>>
    /\ unchangedAccounts /\ unchangedRules

\* Settings.findOneAndUpdate({}, updateData, {upsert: true, new: true}) in the store.
UpsertSettings(current, time, tz, offDays) ==
    [cronScheduleTime |-> time,
     timeZone         |-> tz,
     marketOffDays    |-> IF IsSome(offDays) THEN Val(offDays)
                          ELSE (IF IsSome(current) THEN Val(current).marketOffDays
                                                   ELSE DefaultMarketOffDays)]

\* The calls that are inside updateCronSchedule: those of PUT /api/cron-settings
\* and, once it has read the current time, those of PUT /market-off-days.
UpdateOps == {"update", "offdays"}

UpdateStoreSettings(c) ==
    /\ calls[c].op \in UpdateOps /\ calls[c].pc = "store"
    /\ LET doc == UpsertSettings(settings, Val(calls[c].time), Val(calls[c].timeZone),
                                 calls[c].marketOffDays)
       IN  /\ settings' = Some(doc)
           /\ calls' = [calls EXCEPT ![c] = [@ EXCEPT !.doc = Some(doc), !.pc = "resume"]]
    /\ UNCHANGED <<timeZone, marketOffDays, balanceUpdateJob, deactivationJob,
                   clock, firings, tasks, used>>
    /\ unchangedAccounts /\ unchangedRules

\* Variant of UpdateResume that reschedules before it assigns this.timeZone, as
\* the earlier version did (cronService.ts lines 131-133): the new tasks are
\* armed in the previous time zone.
UpdateResumeStaleZone(c) ==
    /\ calls[c].op = "update" /\ calls[c].pc = "resume"
    /\ LET parsed == ParseTime(Val(calls[c].time))
       IN  /\ marketOffDays' = Val(calls[c].doc).marketOffDays
           /\ timeZone' = Val(calls[c].timeZone)
           /\ ArmBothJobs(parsed.hours, parsed.minutes, timeZone)
    /\ calls' = [calls EXCEPT ![c] =
            [@ EXCEPT !.pc = "done", !.result = Some([success |-> TRUE])]]
    /\ UNCHANGED <<settings, clock, firings>>
    /\ unchangedAccounts /\ unchangedRules

\* updateCronSchedule after its await.
UpdateResume(c) ==
    /\ calls[c].op \in UpdateOps /\ calls[c].pc = "resume"
    /\ LET parsed == ParseTime(Val(calls[c].time))
       IN  /\ marketOffDays' = Val(calls[c].doc).marketOffDays
           /\ timeZone' = Val(calls[c].timeZone)
           /\ ArmBothJobs(parsed.hours, parsed.minutes, Val(calls[c].timeZone))
    /\ calls' = [calls EXCEPT ![c] =
            [@ EXCEPT !.pc = "done", !.result = Some([success |-> TRUE])]]
    /\ UNCHANGED <<settings, clock, firings>>
    /\ unchangedAccounts /\ unchangedRules

\* PUT /market-off-days up to its await: the route's own validation of the
\* body, then Settings.findOne().sort({createdAt: -1}) is issued.
putMarketOffDays(offDays) ==
    /\ used.offDayPuts < MaxOffDayPuts
    /\ calls' = Append(calls,
            IF {i \in 1..Len(offDays) : \/ RatLess(offDays[i], RatInt(0))
                                        \/ RatLess(RatInt(6), offDays[i])} = {}
            THEN NewCall("offdays", "read", None, None, Some(offDays))
            ELSE [NewCall("offdays", "done", None, None, Some(offDays))
                     EXCEPT !.result = Some([success |-> FALSE])])
    /\ used' = [used EXCEPT !.offDayPuts = @ + 1]
    /\ UNCHANGED <<settings, timeZone, marketOffDays, balanceUpdateJob, deactivationJob,
                   clock, firings, tasks>>
    /\ unchangedAccounts /\ unchangedRules

\* The store answers the findOne and the route calls updateCronSchedule with
\* the time and time zone it read, which runs up to its own await.
OffDaysFindSettings(c) ==
    /\ calls[c].op = "offdays" /\ calls[c].pc = "read"
    /\ LET currentTime     == IF IsSome(settings) THEN Val(settings).cronScheduleTime
                                                  ELSE DefaultScheduleTime
           currentTimeZone == IF IsSome(settings) THEN Val(settings).timeZone
                                                  ELSE DefaultTimeZone
       IN  calls' = [calls EXCEPT ![c] =
               IF ValidSchedule(currentTime, calls[c].marketOffDays)
               THEN [@ EXCEPT !.time = Some(currentTime), !.timeZone = Some(currentTimeZone),
                              !.pc = "store"]
               ELSE [@ EXCEPT !.time = Some(currentTime), !.timeZone = Some(currentTimeZone),
                              !.pc = "done", !.result = Some([success |-> FALSE])]]
    /\ UNCHANGED <<settings, timeZone, marketOffDays, balanceUpdateJob, deactivationJob,
                   clock, firings, tasks, used>>
    /\ unchangedAccounts /\ unchangedRules

\* Settings.findOneAndUpdate rejects: the catch block returns success: false.
UpdateStoreFails(c) ==
    /\ calls[c].op = "update" /\ calls[c].pc = "store"
    /\ calls' = [calls EXCEPT ![c] =
            [@ EXCEPT !.pc = "done", !.result = Some([success |-> FALSE])]]
    /\ UNCHANGED <<settings, timeZone, marketOffDays, balanceUpdateJob, deactivationJob,
                   clock, firings, tasks, used>>
    /\ unchangedAccounts /\ unchangedRules

\* updateCronSchedule after its await when cron.schedule throws in
\* scheduleBalanceUpdateJob: the route passes any non-empty timeZone string on,
\* and whether node-cron rejects a name that is no time zone at schedule() is
\* up to the library, so for such a name this outcome and UpdateResume are
\* both possible. The fields were assigned and the settlement task stopped
\* before the throw; the catch block returns success: false.
UpdateArmFails(c) ==
    /\ calls[c].op = "update" /\ calls[c].pc = "resume"
    /\ Val(calls[c].timeZone) \notin TimeZoneNames
    /\ marketOffDays' = Val(calls[c].doc).marketOffDays
    /\ timeZone' = Val(calls[c].timeZone)
    /\ tasks' = StopTask(tasks, balanceUpdateJob)
    /\ calls' = [calls EXCEPT ![c] =
            [@ EXCEPT !.pc = "done", !.result = Some([success |-> FALSE])]]
    /\ UNCHANGED <<settings, balanceUpdateJob, deactivationJob, clock, firings, used>>
    /\ unchangedAccounts /\ unchangedRules

\* stopAllJobs is synchronous: the call is complete when it is recorded.
StopCall ==
    [op |-> "stop", pc |-> "done", time |-> None, timeZone |-> None,
     marketOffDays |-> None, doc |-> None, result |-> None, alone |-> TRUE]

stopAllJobs ==
    /\ used.stops < MaxStops
    /\ tasks' = StopTask(StopTask(tasks, balanceUpdateJob), deactivationJob)
    /\ balanceUpdateJob' = None
    /\ deactivationJob' = None
    /\ calls' = Append(calls, StopCall)
    /\ used' = [used EXCEPT !.stops = @ + 1]
    /\ UNCHANGED <<settings, timeZone, marketOffDays, clock, firings>>
    /\ unchangedAccounts /\ unchangedRules

getCurrentSchedule ==
    LET scheduleTime == IF IsSome(settings) THEN Val(settings).cronScheduleTime
                                            ELSE DefaultScheduleTime
        offDays      == IF IsSome(settings) THEN Val(settings).marketOffDays
                                            ELSE DefaultMarketOffDays
        parsed       == ParseTime(scheduleTime)
    IN  [balanceUpdateTime |-> scheduleTime,
         deactivationTime  |-> formatTime(parsed.hours, parsed.minutes + 1),
         timeZone          |-> IF IsSome(settings) THEN Val(settings).timeZone
                                                   ELSE DefaultTimeZone,
         marketOffDays     |-> offDays,
         marketOffDayNames |-> [i \in 1..Len(offDays) |-> getDayName(offDays[i])]]

-----------------------------------------------------------------------------
(* Time passing: node-cron invokes the callbacks of the live tasks *)

\* The requests an administrator sends to PUT /api/cron-settings: time, timeZone
\* and, optionally, marketOffDays. The last two are invalid.
ScheduleRequests ==
    {[time |-> <<"2", "3", ":", "5", "9">>, timeZone |-> "UTC", marketOffDays |-> None],
     [time |-> <<"2", "3", ":", "5", "9">>, timeZone |-> "Asia/Dhaka", marketOffDays |-> Some(<<RatInt(5)>>)],
     [time |-> <<"2", "4", ":", "0", "0">>, timeZone |-> "UTC", marketOffDays |-> None],
     [time |-> <<"2", "3", ":", "5", "9">>, timeZone |-> "UTC", marketOffDays |-> Some(<<RatInt(7)>>)]}

\* The minutes of the UTC day at which some task the requests can arm may fire.
FiringMinutes ==
    LET armed == {[time |-> q.time, timeZone |-> q.timeZone] :
                    q \in {x \in ScheduleRequests : TimeRegexTest(x.time)}}
                 \cup {[time |-> DefaultScheduleTime, timeZone |-> DefaultTimeZone]}
    IN  {(ParseTime(q.time).hours * 60 + ParseTime(q.time).minutes + d
          + MinutesPerDay - UtcOffset(q.timeZone)) % MinutesPerDay :
            q \in armed, d \in {0, 1}}

\* The next instant after `at` at which a task may fire.
NextInstant(at) ==
    Min({at + 1 + ((m + MinutesPerDay - ((at + 1) % MinutesPerDay)) % MinutesPerDay) :
            m \in FiringMinutes})

Matches(task, at) == LocalMinuteOfDay(at, task.timezone) = task.hour * 60 + task.minute

\* The callbacks of scheduleBalanceUpdateJob and scheduleDeactivationJob, up to
\* their first await, for the tasks of `due` in the order they were created.
RECURSIVE Fire(_, _, _)
Fire(due, at, acc) ==
    IF due = {} THEN acc
    ELSE LET t    == CHOOSE x \in due : \A y \in due : x.id <= y.id
             skip == isMarketOffDay(at, timeZone, marketOffDays)
             log  == [job |-> t.job, task |-> t.id, at |-> at, skipped |-> skip]
             run  == IF t.job = "balance" THEN StartBalanceRun("cron", at)
                                          ELSE StartDeactivationRun("cron", at)
         IN  Fire(due \ {t}, at,
                  [firings |-> Append(acc.firings, log),
                   runs    |-> IF skip THEN acc.runs ELSE Append(acc.runs, run)])

Tick ==
    /\ used.ticks < MaxTicks
    /\ LET at    == NextInstant(clock)
           due   == {t \in tasks : Matches(t, at)}
           fired == Fire(due, at, [firings |-> firings, runs |-> runs])
       IN  /\ clock' = at
           /\ firings' = fired.firings
           /\ runs' = fired.runs
    /\ used' = [used EXCEPT !.ticks = @ + 1]
    /\ UNCHANGED <<users, settings, timeZone, marketOffDays, balanceUpdateJob,
                   deactivationJob, calls, tasks>>
    /\ unchangedRules

-----------------------------------------------------------------------------
(* The profit-rule routes *)

\* A request body of the rule routes; an absent field is None.
RuleBody(minBalance, maxBalance, profit, isActive) ==
    [minBalance |-> minBalance, maxBalance |-> maxBalance,
     profit |-> profit, isActive |-> isActive]

\* Bodies an administrator sends to POST /api/profit-rules: a required field
\* missing, an empty or inverted range, and ranges that are disjoint
\* (0..100 and 101..200), touching (0..100 and 100..200) or nested.
CreateRequests ==
    {RuleBody(None, Some(100), Some(10), None),
     RuleBody(Some(0), None, Some(10), None),
     RuleBody(Some(0), Some(100), None, None),
     RuleBody(Some(100), Some(100), Some(10), None),
     RuleBody(Some(200), Some(0), Some(10), None),
     RuleBody(Some(0), Some(100), Some(-10), None),
     RuleBody(Some(100), Some(200), Some(10), None),
     RuleBody(Some(0), Some(200), Some(0), Some(TRUE)),
     RuleBody(Some(101), Some(200), Some(10), None),
     RuleBody(Some(101), Some(200), Some(0), Some(FALSE))}

\* Bodies an administrator sends to PUT /api/profit-rules/:id.
UpdateRequests ==
    {RuleBody(None, Some(200), None, None),
     RuleBody(Some(101), None, None, None),
     RuleBody(Some(0), Some(100), None, None),
     RuleBody(None, None, Some(-10), None),
     RuleBody(None, None, None, Some(TRUE)),
     RuleBody(None, None, None, Some(FALSE))}

\* The unique index {minBalance: 1, maxBalance: 1} of ProfitRuleSchema.
DuplicateKey(table, id, minBalance, maxBalance) ==
    \E r \in table : r.id # id /\ r.minBalance = minBalance /\ r.maxBalance = maxBalance

unchangedEngine ==
    UNCHANGED <<users, runs, settings, timeZone, marketOffDays, balanceUpdateJob,
                deactivationJob, clock, calls, firings, tasks, requests, used>>

\* POST /api/profit-rules
CreateRule(minBalance, maxBalance, profit, isActive) ==
    /\ nextRuleId <= MaxRules
    /\ IF minBalance = None \/ maxBalance = None \/ profit = None
       THEN response' = [status |-> 400, error |-> "required"]
            /\ UNCHANGED <<rules, nextRuleId>>
       ELSE IF Val(minBalance) >= Val(maxBalance)
       THEN response' = [status |-> 400, error |-> "range"]
            /\ UNCHANGED <<rules, nextRuleId>>
       ELSE IF DuplicateKey(rules, nextRuleId, Val(minBalance), Val(maxBalance))
       THEN response' = [status |-> 400, error |-> "exists"]
            /\ UNCHANGED <<rules, nextRuleId>>
       ELSE /\ rules' = rules \cup
                    {[id         |-> nextRuleId,
                      minBalance |-> Val(minBalance),
                      maxBalance |-> Val(maxBalance),
                      profit     |-> Val(profit),
                      isActive   |-> IF IsSome(isActive) THEN Val(isActive) ELSE TRUE]}
            /\ nextRuleId' = nextRuleId + 1
            /\ response' = [status |-> 201, error |-> "none"]
    /\ unchangedEngine

\* updateData applied to a document: only the fields the body defines.
ApplyUpdateData(r, minBalance, maxBalance, profit, isActive) ==
    [id         |-> r.id,
     minBalance |-> IF IsSome(minBalance) THEN Val(minBalance) ELSE r.minBalance,
     maxBalance |-> IF IsSome(maxBalance) THEN Val(maxBalance) ELSE r.maxBalance,
     profit     |-> IF IsSome(profit) THEN Val(profit) ELSE r.profit,
     isActive   |-> IF IsSome(isActive) THEN Val(isActive) ELSE r.isActive]

\* PUT /api/profit-rules/:id
UpdateRule(id, minBalance, maxBalance, profit, isActive) ==
    /\ IF \A r \in rules : r.id # id
       THEN response' = [status |-> 404, error |-> "notfound"] /\ UNCHANGED rules
       ELSE LET old == CHOOSE r \in rules : r.id = id
                new == ApplyUpdateData(old, minBalance, maxBalance, profit, isActive)
            IN  IF DuplicateKey(rules, id, new.minBalance, new.maxBalance)
                THEN response' = [status |-> 400, error |-> "exists"] /\ UNCHANGED rules
                ELSE /\ rules' = (rules \ {old}) \cup {new}
                     /\ response' = [status |-> 200, error |-> "none"]
    /\ UNCHANGED nextRuleId
    /\ unchangedEngine

\* DELETE /api/profit-rules/:id
DeleteRule(id) ==
    /\ IF \A r \in rules : r.id # id
       THEN response' = [status |-> 404, error |-> "notfound"] /\ UNCHANGED rules
       ELSE /\ rules' = {r \in rules : r.id # id}
            /\ response' = [status |-> 200, error |-> "none"]
    /\ UNCHANGED nextRuleId
    /\ unchangedEngine

\* PATCH /api/profit-rules/:id/toggle-status
ToggleRule(id) ==
    /\ IF \A r \in rules : r.id # id
       THEN response' = [status |-> 404, error |-> "notfound"] /\ UNCHANGED rules
       ELSE /\ rules' = {IF r.id = id THEN [r EXCEPT !.isActive = ~@] ELSE r : r \in rules}
            /\ response' = [status |-> 200, error |-> "none"]
    /\ UNCHANGED nextRuleId
    /\ unchangedEngine

-----------------------------------------------------------------------------
(* Initial states and the specifications *)

\* A document of the User collection as registration creates it, after
\* deposits have brought the balance to `balance`.
NewUser(balance, aiStatus) ==
    [balance               |-> balance,
     aiStatus              |-> aiStatus,
     algoProfitAmount      |-> 0,
     algoProfitPercentage  |-> RatInt(0),
     lastProfitCalculation |-> None,
     transactions          |-> <<>>]

\* The balances the accounts start with.
InitialBalance(a) == IF a % 2 = 1 THEN 150 ELSE 0

Rule(id, minBalance, maxBalance, profit, isActive) ==
    [id |-> id, minBalance |-> minBalance, maxBalance |-> maxBalance,
     profit |-> profit, isActive |-> isActive]

\* Rule tables the rule routes can have produced before the engine starts.
InitialRuleTables ==
    {{Rule(1, 100, 200, 10, TRUE), Rule(2, 0, 100, -10, TRUE), Rule(3, 0, 200, -10, FALSE)},
     {Rule(1, 0, 100, -10, TRUE), Rule(2, 0, 200, 0, TRUE)}}

\* The instants at which the model starts watching: Friday and Sunday, 12:00 UTC.
StartInstants == {d * MinutesPerDay + 12 * 60 : d \in {0, 5}}

\* CronService as constructed, before index.ts calls initScheduledJobs.
InitService ==
    /\ timeZone = DefaultTimeZone
    /\ marketOffDays = DefaultMarketOffDays
    /\ balanceUpdateJob = None
    /\ deactivationJob = None
    /\ tasks = {}
    /\ runs = <<>>
    /\ firings = <<>>
    /\ response = [status |-> 0, error |-> "none"]
    /\ requests = <<>>
    /\ used = [ticks |-> 0, toggles |-> 0, tasksCreated |-> 0, stops |-> 0,
              offDayPuts |-> 0]

(* The settlement and deactivation engines, run by the manual triggers, over  *)
(* every initial account state and rule table; the scheduler is not started.  *)
Init ==
    /\ InitService
    /\ settings = None
    /\ users = [a \in Accounts |-> NewUser(InitialBalance(a), TRUE)]
    /\ rules \in InitialRuleTables
    /\ nextRuleId = 4
    /\ clock \in {MinutesPerDay + 18 * 60, 6 * MinutesPerDay + 12 * 60}
    /\ calls = <<>>

Next ==
    \/ manualBalanceUpdate
    \/ \E r \in 1..Len(runs) : FindActiveUsers(r)
    \/ \E r \in 1..Len(runs) : CalcProfit(r)
    \/ \E r \in 1..Len(runs) : SettleUser(r)
    \/ manualAIDeactivation
    \/ \E r \in 1..Len(runs) : DeactivationFind(r)
    \/ \E r \in 1..Len(runs) : DeactivationUpdateMany(r)
    \/ \E a \in Accounts : ToggleAI(a)

Spec == Init /\ [][Next]_vars

(* The scheduler: start-up, schedule updates, time passing and the runs the   *)
(* cron callbacks start, over one rule table and participating accounts.      *)
InitScheduler ==
    /\ InitService
    /\ settings = None
    /\ users = [a \in Accounts |-> NewUser(150, a = 1)]
    /\ rules = {Rule(1, 100, 200, 10, TRUE), Rule(2, 0, 200, -10, FALSE)}
    /\ nextRuleId = 3
    /\ clock \in StartInstants
    /\ calls = <<StartupCall>>

NextScheduler ==
    \/ \E c \in 1..Len(calls) : InitFindSettings(c)
    \/ \E c \in 1..Len(calls) : InitResume(c)
    \/ \E q \in ScheduleRequests : updateCronSchedule(q.time, q.timeZone, q.marketOffDays)
    \/ \E c \in 1..Len(calls) : UpdateStoreSettings(c)
    \/ \E c \in 1..Len(calls) : UpdateResume(c)
    \/ Tick
    \/ \E r \in 1..Len(runs) : FindActiveUsers(r)
    \/ \E r \in 1..Len(runs) : CalcProfit(r)
    \/ \E r \in 1..Len(runs) : SettleUser(r)
    \/ \E r \in 1..Len(runs) : DeactivationFind(r)
    \/ \E r \in 1..Len(runs) : DeactivationUpdateMany(r)

SpecScheduler == InitScheduler /\ [][NextScheduler]_vars

(* The rule routes, from an empty ProfitRule collection. *)
InitRules ==
    /\ InitService
    /\ settings = None
    /\ users = [a \in Accounts |-> NewUser(0, FALSE)]
    /\ rules = {}
    /\ nextRuleId = 1
    /\ clock = 0
    /\ calls = <<>>

NextRules ==
    \/ \E q \in CreateRequests :
            CreateRule(q.minBalance, q.maxBalance, q.profit, q.isActive)
    \/ \E id \in 1..MaxRules, q \in UpdateRequests :
            UpdateRule(id, q.minBalance, q.maxBalance, q.profit, q.isActive)
    \/ \E id \in 1..MaxRules : DeleteRule(id)
    \/ \E id \in 1..MaxRules : ToggleRule(id)

SpecRules == InitRules /\ [][NextRules]_vars

(* Start-up over every run time the Settings collection can hold: every hh:mm *)
(* with two-digit hours, and the one-digit form of the hours below ten, which *)
(* the validation of updateCronSchedule accepts and stores as sent.           *)
ShortTimeString(h, m) == NumToString(h) \o <<":">> \o PadStart2(NumToString(m))

StoredTimes ==
    {TimeString(h, m) : h \in 0..23, m \in 0..59}
        \cup {ShortTimeString(h, m) : h \in 0..9, m \in 0..59}

InitTime ==
    /\ InitService
    /\ \E t \in StoredTimes, tz \in TimeZoneNames :
          settings = Some([cronScheduleTime |-> t, timeZone |-> tz,
                           marketOffDays |-> DefaultMarketOffDays])
    /\ users = [a \in Accounts |-> NewUser(0, FALSE)]
    /\ rules = {}
    /\ nextRuleId = 1
    /\ clock = 0
    /\ calls = <<StartupCall>>

NextTime ==
    \/ \E c \in 1..Len(calls) : InitFindSettings(c)
    \/ \E c \in 1..Len(calls) : InitResume(c)

SpecTime == InitTime /\ [][NextTime]_vars

(* Settlement cycles in which the store may reject the update of an account. *)
InitFailure ==
    /\ InitService
    /\ settings = None
    /\ users = [a \in Accounts |-> NewUser(InitialBalance(a), TRUE)]
    /\ rules = {Rule(1, 100, 200, 10, TRUE), Rule(2, -100, 100, -10, TRUE)}
    /\ nextRuleId = 3
    /\ clock = MinutesPerDay + 18 * 60
    /\ calls = <<>>

NextFailure ==
    \/ manualBalanceUpdate
    \/ \E r \in 1..Len(runs) : FindActiveUsers(r)
    \/ \E r \in 1..Len(runs) : CalcProfit(r)
    \/ \E r \in 1..Len(runs) : SettleUser(r)
    \/ \E r \in 1..Len(runs) : StoreUpdateFails(r)

SpecFailure == InitFailure /\ [][NextFailure]_vars

(* Settlement cycles in which the store may reject the rule lookup. *)
NextLookupFailure ==
    \/ manualBalanceUpdate
    \/ \E r \in 1..Len(runs) : FindActiveUsers(r)
    \/ \E r \in 1..Len(runs) : CalcProfit(r)
    \/ \E r \in 1..Len(runs) : RuleLookupFails(r)
    \/ \E r \in 1..Len(runs) : SettleUser(r)

SpecLookupFailure == InitFailure /\ [][NextLookupFailure]_vars

(* Settlement cycles interleaved with the withdrawal and deposit routes. *)
RequestAmounts == {5, 50}

InitBalance ==
    /\ InitService
    /\ settings = None
    /\ users = [a \in Accounts |-> NewUser(InitialBalance(a), TRUE)]
    /\ rules = {Rule(1, 100, 200, 10, TRUE), Rule(2, -100, 99, -10, TRUE)}
    /\ nextRuleId = 3
    /\ clock = MinutesPerDay + 18 * 60
    /\ calls = <<>>

NextBalance ==
    \/ manualBalanceUpdate
    \/ \E r \in 1..Len(runs) : FindActiveUsers(r)
    \/ \E r \in 1..Len(runs) : CalcProfit(r)
    \/ \E r \in 1..Len(runs) : SettleUser(r)
    \/ \E a \in Accounts, amount \in RequestAmounts : CreateWithdrawal(a, amount)
    \/ \E q \in 1..Len(requests) : SaveWithdrawal(q)
    \/ \E q \in 1..Len(requests) : RejectWithdrawal(q)
    \/ \E j \in 1..Len(requests) : SaveRejection(j)
    \/ \E a \in Accounts, amount \in RequestAmounts : ApproveDeposit(a, amount)

SpecBalance == InitBalance /\ [][NextBalance]_vars

(* The scheduled firings of the default schedule next to the manual triggers. *)
NextTriggers ==
    \/ \E c \in 1..Len(calls) : InitFindSettings(c)
    \/ \E c \in 1..Len(calls) : InitResume(c)
    \/ Tick
    \/ manualBalanceUpdate
    \/ manualAIDeactivation
    \/ \E r \in 1..Len(runs) : FindActiveUsers(r)
    \/ \E r \in 1..Len(runs) : CalcProfit(r)
    \/ \E r \in 1..Len(runs) : SettleUser(r)
    \/ \E r \in 1..Len(runs) : DeactivationFind(r)
    \/ \E r \in 1..Len(runs) : DeactivationUpdateMany(r)

SpecTriggers == InitScheduler /\ [][NextTriggers]_vars

(* One Monday in Asia/Dhaka: the service starts with the default schedule one *)
(* minute before the 06:00 firing, and the administrator may move the run time *)
(* to 23:59 of the same time zone, leaving marketOffDays as they are.         *)
DayRequests ==
    {[time |-> <<"2", "3", ":", "5", "9">>, timeZone |-> "Asia/Dhaka", marketOffDays |-> None]}

DayStart == MinutesPerDay - 1

InitDay ==
    /\ InitService
    /\ settings = None
    /\ users = [a \in Accounts |-> NewUser(150, a = 1)]
    /\ rules = {Rule(1, 100, 200, 10, TRUE), Rule(2, 0, 200, -10, FALSE)}
    /\ nextRuleId = 3
    /\ clock = DayStart
    /\ calls = <<StartupCall>>

NextDay ==
    \/ \E c \in 1..Len(calls) : InitFindSettings(c)
    \/ \E c \in 1..Len(calls) : InitResume(c)
    \/ \E q \in DayRequests : updateCronSchedule(q.time, q.timeZone, q.marketOffDays)
    \/ \E c \in 1..Len(calls) : UpdateStoreSettings(c)
    \/ \E c \in 1..Len(calls) : UpdateResume(c)
    \/ Tick
    \/ \E a \in Accounts : ToggleAI(a)
    \/ \E r \in 1..Len(runs) : FindActiveUsers(r)
    \/ \E r \in 1..Len(runs) : CalcProfit(r)
    \/ \E r \in 1..Len(runs) : SettleUser(r)
    \/ \E r \in 1..Len(runs) : DeactivationFind(r)
    \/ \E r \in 1..Len(runs) : DeactivationUpdateMany(r)

SpecDay == InitDay /\ [][NextDay]_vars

(* calculateProfitPercentage by itself, over every profit and balance of the  *)
(* bounds, zero and negative ones included.                                   *)
PercentageCall(profitAmount, previousBalance) ==
    [op |-> "percentage", pc |-> "call", profitAmount |-> profitAmount,
     previousBalance |-> previousBalance, result |-> None]

CalculatePercentage(c) ==
    /\ calls[c].op = "percentage" /\ calls[c].pc = "call"
    /\ calls' = [calls EXCEPT ![c] =
            [@ EXCEPT !.pc = "done",
                      !.result = Some(calculateProfitPercentage(calls[c].profitAmount,
                                                                calls[c].previousBalance))]]
    /\ UNCHANGED <<settings, timeZone, marketOffDays, balanceUpdateJob, deactivationJob,
                   clock, firings, tasks, used>>
    /\ unchangedAccounts /\ unchangedRules

InitPercentage ==
    /\ InitService
    /\ settings = None
    /\ users = [a \in Accounts |-> NewUser(0, FALSE)]
    /\ rules = {}
    /\ nextRuleId = 1
    /\ clock = 0
    /\ \E profitAmount \in -MaxProfit..MaxProfit, previousBalance \in -MaxBalance..MaxBalance :
          calls = <<PercentageCall(profitAmount, previousBalance)>>

NextPercentage == \E c \in 1..Len(calls) : CalculatePercentage(c)

SpecPercentage == InitPercentage /\ [][NextPercentage]_vars

(* The ledger under the default schedule from one minute before Monday's     *)
(* firing: scheduled settlement and deactivation, and accounts toggled.      *)
NextLedger ==
    \/ \E c \in 1..Len(calls) : InitFindSettings(c)
    \/ \E c \in 1..Len(calls) : InitResume(c)
    \/ Tick
    \/ \E a \in Accounts : ToggleAI(a)
    \/ \E r \in 1..Len(runs) : FindActiveUsers(r)
    \/ \E r \in 1..Len(runs) : CalcProfit(r)
    \/ \E r \in 1..Len(runs) : SettleUser(r)
    \/ \E r \in 1..Len(runs) : DeactivationFind(r)
    \/ \E r \in 1..Len(runs) : DeactivationUpdateMany(r)

SpecLedger == InitDay /\ [][NextLedger]_vars

(* The life of the scheduler around Monday's firing: start-up, a further      *)
(* initScheduledJobs, a schedule update, stopAllJobs, and time passing.       *)
NextLifecycle ==
    \/ initScheduledJobs
    \/ \E c \in 1..Len(calls) : InitFindSettings(c)
    \/ \E c \in 1..Len(calls) : InitResume(c)
    \/ \E q \in DayRequests : updateCronSchedule(q.time, q.timeZone, q.marketOffDays)
    \/ \E c \in 1..Len(calls) : UpdateStoreSettings(c)
    \/ \E c \in 1..Len(calls) : UpdateResume(c)
    \/ stopAllJobs
    \/ Tick
    \/ \E r \in 1..Len(runs) : FindActiveUsers(r)
    \/ \E r \in 1..Len(runs) : CalcProfit(r)
    \/ \E r \in 1..Len(runs) : SettleUser(r)
    \/ \E r \in 1..Len(runs) : DeactivationFind(r)
    \/ \E r \in 1..Len(runs) : DeactivationUpdateMany(r)

SpecLifecycle == InitDay /\ [][NextLifecycle]_vars

(* The arming and stopping of the jobs alone, with the clock standing still. *)
NextArms ==
    \/ initScheduledJobs
    \/ \E c \in 1..Len(calls) : InitFindSettings(c)
    \/ \E c \in 1..Len(calls) : InitResume(c)
    \/ \E q \in ScheduleRequests : updateCronSchedule(q.time, q.timeZone, q.marketOffDays)
    \/ \E c \in 1..Len(calls) : UpdateStoreSettings(c)
    \/ \E c \in 1..Len(calls) : UpdateResume(c)
    \/ stopAllJobs

SpecArms == InitDay /\ [][NextArms]_vars

(* The validation of updateCronSchedule: start-up and schedule updates over *)
(* well-formed and malformed run times and off-day lists.                    *)
ValidationTimes ==
    {<<"2", "3", ":", "5", "9">>, <<"6", ":", "0", "0">>, <<"2", "4", ":", "0", "0">>,
     <<"2", "3", ":", "6", "0">>, <<"2", "3", "5", "9">>, <<"0", "0", "6", ":", "0", "0">>}

ValidationOffDays ==
    {None, Some(<<>>), Some(<<RatInt(6)>>), Some(<<RatInt(7)>>), Some(<<RatInt(-1)>>),
     Some(<<Rat(5, 2)>>), Some(<<RatInt(0), Rat(13, 2)>>)}

InitValidation ==
    /\ InitService
    /\ settings = None
    /\ users = [a \in Accounts |-> NewUser(0, FALSE)]
    /\ rules = {}
    /\ nextRuleId = 1
    /\ clock = 0
    /\ calls = <<StartupCall>>

NextValidation ==
    \/ \E c \in 1..Len(calls) : InitFindSettings(c)
    \/ \E c \in 1..Len(calls) : InitResume(c)
    \/ \E t \in ValidationTimes, d \in ValidationOffDays : updateCronSchedule(t, "UTC", d)
    \/ \E c \in 1..Len(calls) : UpdateStoreSettings(c)
    \/ \E c \in 1..Len(calls) : UpdateResume(c)

SpecValidation == InitValidation /\ [][NextValidation]_vars

(* Schedule updates that fail: at validation, at the store write, or at     *)
(* cron.schedule for a timeZone string that names no time zone.              *)
FailureZones == {"UTC", "Mars/Phobos"}

NextUpdateFailure ==
    \/ \E c \in 1..Len(calls) : InitFindSettings(c)
    \/ \E c \in 1..Len(calls) : InitResume(c)
    \/ \E t \in ValidationTimes, tz \in FailureZones, d \in ValidationOffDays :
            updateCronSchedule(t, tz, d)
    \/ \E c \in 1..Len(calls) : UpdateStoreSettings(c)
    \/ \E c \in 1..Len(calls) : UpdateStoreFails(c)
    \/ \E c \in 1..Len(calls) : UpdateResume(c)
    \/ \E c \in 1..Len(calls) : UpdateArmFails(c)

SpecUpdateFailure == InitValidation /\ [][NextUpdateFailure]_vars

(* PUT /market-off-days beside PUT /api/cron-settings, after start-up on an  *)
(* empty Settings collection.                                                 *)
OffDayLists == {<<>>, <<RatInt(5)>>, <<RatInt(0), RatInt(6)>>, <<RatInt(7)>>}

NextOffDays ==
    \/ \E c \in 1..Len(calls) : InitFindSettings(c)
    \/ \E c \in 1..Len(calls) : InitResume(c)
    \/ \E q \in ScheduleRequests : updateCronSchedule(q.time, q.timeZone, q.marketOffDays)
    \/ \E d \in OffDayLists : putMarketOffDays(d)
    \/ \E c \in 1..Len(calls) : OffDaysFindSettings(c)
    \/ \E c \in 1..Len(calls) : UpdateStoreSettings(c)
    \/ \E c \in 1..Len(calls) : UpdateResume(c)

SpecOffDays == InitValidation /\ [][NextOffDays]_vars

(* Start-up of a fresh process over what the Settings collection can hold:  *)
(* nothing, or what an earlier update stored, a timeZone string that names   *)
(* no time zone included; the read may fail.                                  *)
StartupTimes ==
    {<<"0", "6", ":", "0", "0">>, <<"6", ":", "0", "0">>, <<"2", "3", ":", "5", "9">>,
     <<"0", "0", ":", "0", "0">>}

StartupZones == TimeZoneNames \cup FailureZones

StartupOffDays == {DefaultMarketOffDays, <<RatInt(5)>>, <<>>}

InitStartup ==
    /\ InitService
    /\ \/ settings = None
       \/ \E t \in StartupTimes, tz \in StartupZones, d \in StartupOffDays :
             settings = Some([cronScheduleTime |-> t, timeZone |-> tz, marketOffDays |-> d])
    /\ users = [a \in Accounts |-> NewUser(0, FALSE)]
    /\ rules = {}
    /\ nextRuleId = 1
    /\ clock = 0
    /\ calls = <<StartupCall>>

NextStartup ==
    \/ \E c \in 1..Len(calls) : InitFindSettings(c)
    \/ \E c \in 1..Len(calls) : InitFindFails(c)
    \/ \E c \in 1..Len(calls) : InitResume(c)
    \/ \E c \in 1..Len(calls) : InitArmFails(c)

SpecStartup == InitStartup /\ [][NextStartup]_vars

-----------------------------------------------------------------------------
(* Properties of the settlement loop *)

\* The step of run r that applies the findByIdAndUpdate of the loop body.
SettleStep(r) == runs[r].kind = "balance" /\ runs[r].pc = "update" /\ runs'[r].pc # "update"

\* The document User.find returned for the account run r is settling.
Settled(r) == runs[r].activeUsers[runs[r].idx]

Last(seq) == seq[Len(seq)]

AppendsOne(old, new) == Len(new) = Len(old) + 1 /\ SubSeq(new, 1, Len(old)) = old

\* C1: when the loop settles a participating account whose resolved rule has
\* profit p # 0, the update adds p to the stored balance (so the balance is
\* b + p, b being the balance the cycle read, whenever no other cycle has moved
\* it in between) and appends exactly one ledger entry: amount |p|, credit for
\* p > 0 and debit for p < 0, ruleId the rule resolved for b; no other account
\* changes in that step.
C1_ProfitSettlement ==
    [][\A r \in 1..Len(runs) :
          (SettleStep(r) /\ runs[r].profit # 0) =>
              LET u     == Settled(r)
                  p     == runs[r].profit
                  old   == users[u.id]
                  new   == users'[u.id]
                  entry == Last(new.transactions)
              IN  /\ new.balance = old.balance + p
                  /\ old.balance = u.balance => new.balance = u.balance + p
                  /\ AppendsOne(old.transactions, new.transactions)
                  /\ entry.amount = Abs(p) /\ entry.amount > 0
                  /\ entry.type = IF p > 0 THEN "credit" ELSE "debit"
                  /\ IsSome(entry.ruleId)
                  /\ \E q \in rules : /\ q.id = Val(entry.ruleId)
                                      /\ q.isActive /\ q.profit = p
                                      /\ q.minBalance <= u.balance
                                      /\ u.balance <= q.maxBalance
                  /\ \A a \in Accounts \ {u.id} : users'[a] = users[a]]_vars

\* One cycle over balance 150 and the rule {100..200, +10}: balance 160 and one
\* credit entry of 10 that refers to the rule; and a debit in the same table.
C1_Witness ==
    /\ Len(runs) = 1 /\ runs[1].pc = "done" /\ runs[1].usersUpdated = NumAccounts
    /\ users[1].balance = 160
    /\ Len(users[1].transactions) = 1
    /\ users[1].transactions[1].amount = 10
    /\ users[1].transactions[1].type = "credit"
    /\ users[1].transactions[1].ruleId = Some(1)
    /\ users[2].balance = -10
    /\ users[2].transactions[1].amount = 10
    /\ users[2].transactions[1].type = "debit"

-----------------------------------------------------------------------------
(* Properties of the rule lookup and of the rule routes *)

\* The step of run r in which calculateProfit returns.
CalcStep(r) == runs[r].kind = "balance" /\ runs[r].pc = "calc" /\ runs'[r].pc = "update"

Contains(q, balance) == q.minBalance <= balance /\ balance <= q.maxBalance

Overlap(q1, q2) == q1.minBalance <= q2.maxBalance /\ q2.minBalance <= q1.maxBalance

\* C4: for every balance b and rule table, the lookup returns profit 0 and no
\* rule id when no active rule contains b, and otherwise the profit and id of an
\* active rule containing b (bounds inclusive) with the lowest minBalance; and
\* two lookups of the same balance in the same table return the same result.
C4_RuleResolution ==
    [][\A r \in 1..Len(runs) :
          CalcStep(r) =>
              LET b        == Settled(r).balance
                  matching == {q \in rules : q.isActive /\ Contains(q, b)}
              IN  /\ matching = {} =>
                        runs'[r].profit = 0 /\ runs'[r].ruleId = None
                  /\ matching # {} =>
                        \E q \in matching :
                            /\ \A m \in matching : q.minBalance <= m.minBalance
                            /\ runs'[r].profit = q.profit
                            /\ runs'[r].ruleId = Some(q.id)
                  /\ \A o \in 1..Len(runs) :
                        (runs[o].kind = "balance" /\ runs[o].pc = "update"
                            /\ Settled(o).balance = b /\ rules' = rules) =>
                                /\ runs'[r].profit = runs[o].profit
                                /\ runs'[r].ruleId = runs[o].ruleId]_vars

\* Two lookups of balance 0 in the table {0..100, -10}, {0..200, 0} that
\* returned different rules.
C4_Witness ==
    \E r, o \in 1..Len(runs) :
        /\ runs[r].pc = "update" /\ runs[o].pc = "update"
        /\ Settled(r).balance = Settled(o).balance
        /\ runs[r].ruleId # runs[o].ruleId

\* C5: after any sequence of rule-route calls no two distinct active rules
\* have overlapping [minBalance, maxBalance] ranges.
C5_NoActiveOverlap ==
    \A q1, q2 \in rules :
        (q1.id # q2.id /\ q1.isActive /\ q2.isActive) => ~Overlap(q1, q2)

\* C6: a create or update that succeeds (a rule is added, or the range of a rule
\* changes) never leaves the new range overlapping the range of another active
\* rule: such a request is refused and the table is left as it was.
C6_OverlapRejected ==
    [][\A n \in rules' :
          (/\ n \notin rules
           /\ \A o \in rules : o.id = n.id =>
                  (o.minBalance # n.minBalance \/ o.maxBalance # n.maxBalance)) =>
              \A q \in rules : (q.id # n.id /\ q.isActive) => ~Overlap(n, q)]_vars

\* A request for the very range of another rule is refused.
C6_Witness ==
    /\ response.status = 400 /\ response.error = "exists"
    /\ Cardinality(rules) = 2

-----------------------------------------------------------------------------
(* Properties of the scheduler and of the deactivation run *)

\* The weekday of instant `at` in the service's time zone is a market off day.
OffDayAt(at) ==
    \E i \in 1..Len(marketOffDays) :
        marketOffDays[i] = RatInt(((at + UtcOffset(timeZone)) \div MinutesPerDay) % 7)

\* The firings the step logs, and the runs it starts.
NewFirings == {k \in (Len(firings) + 1)..Len(firings') : TRUE}
NewRuns == {k \in (Len(runs) + 1)..Len(runs') : TRUE}

\* C7: when the settlement task fires on a weekday (in the service's time zone)
\* that is in marketOffDays, the callback is invoked and skips: no settlement
\* run starts, no account changes, and the task stays armed.
C7_MarketOffSkip ==
    [][(clock' # clock) =>
          LET at  == clock'
              due == {t \in tasks : t.job = "balance" /\ Matches(t, at)}
          IN  (due # {} /\ OffDayAt(at)) =>
                  /\ \A t \in due : \E k \in NewFirings :
                        /\ firings'[k].task = t.id /\ firings'[k].at = at
                        /\ firings'[k].skipped
                  /\ \A k \in NewRuns : runs'[k].kind # "balance"
                  /\ users' = users
                  /\ tasks' = tasks
                  /\ balanceUpdateJob' = balanceUpdateJob]_vars

\* A settlement firing of the armed task that was skipped: no settlement run
\* started at that instant and no account has changed.
C7_Witness ==
    \E k \in 1..Len(firings) :
        /\ firings[k].job = "balance" /\ firings[k].skipped
        /\ Some(firings[k].task) = balanceUpdateJob
        /\ \A r \in 1..Len(runs) :
              runs[r].kind = "balance" => runs[r].startedAt # firings[k].at
        /\ users = [a \in Accounts |-> NewUser(150, a = 1)]
        /\ clock > firings[k].at

\* The step of run r that applies the updateMany.
DeactivateStep(r) ==
    runs[r].kind = "deactivation" /\ runs[r].pc = "updateMany" /\ runs'[r].pc = "done"

StartedActive(r) == {runs[r].activeUsers[i].id : i \in 1..Len(runs[r].activeUsers)}

\* C8: the update of a deactivation run turns every participating account off
\* and appends to each exactly one ledger entry of type system and amount 0,
\* changing nothing else; an account that is not participating is left as it
\* is. So when the flags are as they were when the run started, exactly the
\* accounts that were participating then are off and have gained one entry.
C8_DeactivationCompleteness ==
    [][\A r \in 1..Len(runs) :
          DeactivateStep(r) =>
              /\ \A a \in Accounts :
                    /\ users[a].aiStatus =>
                          /\ ~users'[a].aiStatus
                          /\ AppendsOne(users[a].transactions, users'[a].transactions)
                          /\ Last(users'[a].transactions).type = "system"
                          /\ Last(users'[a].transactions).amount = 0
                          /\ [users'[a] EXCEPT !.aiStatus = TRUE,
                                               !.transactions = users[a].transactions]
                                = users[a]
                    /\ ~users[a].aiStatus => users'[a] = users[a]
              /\ (\A a \in Accounts : users[a].aiStatus <=> a \in StartedActive(r)) =>
                    \A a \in Accounts :
                        Len(users'[a].transactions) = Len(users[a].transactions)
                            + (IF a \in StartedActive(r) THEN 1 ELSE 0)]_vars

\* A deactivation run that started with account 1 participating and account 2
\* not: account 1 is off with one system entry of amount 0, account 2 has none.
C8_Witness ==
    /\ Len(runs) = 1 /\ runs[1].kind = "deactivation" /\ runs[1].pc = "done"
    /\ runs[1].activeUsers = <<[id |-> 1]>>
    /\ ~users[1].aiStatus /\ ~users[2].aiStatus
    /\ Len(users[1].transactions) = 1
    /\ users[1].transactions[1].type = "system"
    /\ users[1].transactions[1].amount = 0
    /\ users[2].transactions = <<>>

\* C9: once the jobs are armed for the stored run time hh:mm (hh in 0..23, mm
\* in 0..59, hours written with one or two digits), the deactivation task is
\* the only live deactivation task, its cron fields are those of minute
\* (hh * 60 + mm + 1) mod 1440 of the day, and getCurrentSchedule reports that
\* time as deactivationTime.
C9_DeactivationTime ==
    (\A c \in 1..Len(calls) : calls[c].pc = "done") =>
        \E h \in 0..23, m \in 0..59 :
            LET due == (h * 60 + m + 1) % (24 * 60)
            IN  /\ \/ Val(settings).cronScheduleTime = TimeString(h, m)
                   \/ h < 10 /\ Val(settings).cronScheduleTime
                                    = <<DigitChars[h + 1]>> \o SubSeq(TimeString(h, m), 3, 5)
                /\ IsSome(deactivationJob)
                /\ \A t \in tasks :
                      t.job = "deactivation" =>
                          /\ t.id = Val(deactivationJob)
                          /\ t.hour = due \div 60
                          /\ t.minute = due % 60
                /\ \E t \in tasks : t.job = "deactivation"
                /\ getCurrentSchedule.deactivationTime = TimeString(due \div 60, due % 60)

\* Run time 23:59: the deactivation task is armed at 0:00 and the reported
\* deactivationTime is "00:00".
C9_Witness ==
    /\ \A c \in 1..Len(calls) : calls[c].pc = "done"
    /\ Val(settings).cronScheduleTime = <<"2", "3", ":", "5", "9">>
    /\ \E t \in tasks : t.job = "deactivation" /\ t.hour = 0 /\ t.minute = 0
    /\ getCurrentSchedule.deactivationTime = <<"0", "0", ":", "0", "0">>

\* The last call is an updateCronSchedule that returned success, started when no
\* other call was in flight, and no call is in flight now.
LastUpdateDone ==
    /\ Len(calls) > 0
    /\ calls[Len(calls)].op = "update"
    /\ calls[Len(calls)].result = Some([success |-> TRUE])
    /\ calls[Len(calls)].alone
    /\ \A k \in 1..Len(calls) : calls[k].pc = "done"

\* C10: after updateCronSchedule(t, tz) returned success, with no other call in
\* flight and none after it, the settlement callback is invoked exactly once at
\* each instant whose wall-clock time in tz is t, and at no other instant: not
\* at the time configured before, and not at t in the time zone used before.
C10_ReconfigurationTakesEffect ==
    [][(clock' # clock /\ LastUpdateDone) =>
          LET c == calls[Len(calls)]
              t == ParseTime(Val(c.time))
              fired == {k \in NewFirings : firings'[k].job = "balance"}
          IN  /\ Cardinality(fired) =
                    IF (clock' + UtcOffset(Val(c.timeZone))) % (24 * 60)
                            = t.hours * 60 + t.minutes
                    THEN 1 ELSE 0
              /\ \A k \in fired : firings'[k].at = clock'
                                    /\ Some(firings'[k].task) = balanceUpdateJob]_vars

\* After the update to 23:59 UTC the callback ran at 23:59 UTC, and the clock
\* has passed 06:00 Asia/Dhaka (00:00 UTC), the time configured before, without
\* another invocation.
C10_Witness ==
    /\ LastUpdateDone
    /\ calls[Len(calls)].time = Some(<<"2", "3", ":", "5", "9">>)
    /\ calls[Len(calls)].timeZone = Some("UTC")
    /\ clock % MinutesPerDay = 1
    /\ \E k \in 1..Len(firings) :
          /\ firings[k].job = "balance"
          /\ firings[k].at % MinutesPerDay = 23 * 60 + 59
          /\ Some(firings[k].task) = balanceUpdateJob
    /\ \A k \in 1..Len(firings) :
          firings[k].job = "balance" => firings[k].at % MinutesPerDay = 23 * 60 + 59

-----------------------------------------------------------------------------
(* Properties of the validation of updateCronSchedule *)

\* A run time HH:mm with hours 0..23 (written with one or two digits) and
\* minutes 0..59.
IsRunTime(time) ==
    \E h \in 0..23, m \in 0..59 : time = TimeString(h, m) \/ time = ShortTimeString(h, m)

\* Every entry of the list, if one is given, is an integer in 0..6.
AreWeekdays(offDays) ==
    IsSome(offDays) =>
        \A i \in 1..Len(Val(offDays)) :
            Val(offDays)[i].den = 1 /\ Val(offDays)[i].num \in 0..6

\* C11: an updateCronSchedule call whose run time is not HH:mm or whose
\* marketOffDays holds a value that is not an integer in 0..6 returns
\* success = false at once, and no step of such a call ever follows: the stored
\* settings, this.timeZone, this.marketOffDays and both armed tasks stay as
\* they were.
C11_InvalidScheduleRejected ==
    [][/\ (Len(calls') = Len(calls) + 1 /\ Last(calls').op = "update"
              /\ ~(IsRunTime(Val(Last(calls').time))
                     /\ AreWeekdays(Last(calls').marketOffDays))) =>
             /\ Last(calls').pc = "done"
             /\ Last(calls').result = Some([success |-> FALSE])
             /\ UNCHANGED <<settings, timeZone, marketOffDays, balanceUpdateJob,
                            deactivationJob, tasks>>
       /\ \A c \in 1..Len(calls) :
             (calls[c].op = "update" /\ calls'[c] # calls[c]) =>
                 /\ IsRunTime(Val(calls[c].time))
                 /\ AreWeekdays(calls[c].marketOffDays)]_vars

\* A call with the off-day list [2.5] that returned success and whose list is
\* now this.marketOffDays and the stored marketOffDays.
C11_Witness ==
    \E c \in 1..Len(calls) :
        /\ calls[c].marketOffDays = Some(<<Rat(5, 2)>>)
        /\ calls[c].result = Some([success |-> TRUE])
        /\ marketOffDays = <<Rat(5, 2)>>
        /\ Val(settings).marketOffDays = <<Rat(5, 2)>>

-----------------------------------------------------------------------------
(* Properties of a settlement cycle under store errors *)

RECURSIVE SumUsersUpdated(_)
SumUsersUpdated(n) == IF n = 0 THEN 0 ELSE runs[n].usersUpdated + SumUsersUpdated(n - 1)

RECURSIVE SumDistributed(_)
SumDistributed(n) ==
    IF n = 0 THEN 0 ELSE runs[n].totalProfitDistributed + SumDistributed(n - 1)

RECURSIVE SumEntries(_)
SumEntries(a) == IF a = 0 THEN 0 ELSE Len(users[a].transactions) + SumEntries(a - 1)

RECURSIVE SumGains(_)
SumGains(a) ==
    IF a = 0 THEN 0 ELSE users[a].balance - InitialBalance(a) + SumGains(a - 1)

\* The step of run r in which the update of the account being settled fails.
FailStep(r) ==
    /\ SettleStep(r) /\ runs[r].profit # 0
    /\ runs'[r].usersUpdated = runs[r].usersUpdated

\* C12: when the store update of one account fails, no account changes in that
\* step, the run's usersUpdated and distributed total stay as they were, and
\* the loop goes on with the next account it found (or ends after the last);
\* every update that succeeds, before or after, adds its profit to the balance
\* and appends one entry. So the runs' counters always equal what the accounts
\* received: usersUpdated sums to the number of ledger entries and the
\* distributed totals sum to the balance gains.
C12_PerAccountIsolation ==
    /\ [](/\ SumUsersUpdated(Len(runs)) = SumEntries(NumAccounts)
          /\ SumDistributed(Len(runs)) = SumGains(NumAccounts))
    /\ [][\A r \in 1..Len(runs) :
            /\ FailStep(r) =>
                  /\ users' = users
                  /\ runs'[r].totalProfitDistributed = runs[r].totalProfitDistributed
                  /\ IF runs[r].idx < Len(runs[r].activeUsers)
                     THEN /\ runs'[r].pc = "calc"
                          /\ runs'[r].idx = runs[r].idx + 1
                          /\ runs'[r].activeUsers = runs[r].activeUsers
                     ELSE runs'[r].pc = "done"
            /\ (SettleStep(r) /\ runs[r].profit # 0 /\ ~FailStep(r)) =>
                  LET id == Settled(r).id
                  IN  /\ users'[id].balance = users[id].balance + runs[r].profit
                      /\ AppendsOne(users[id].transactions, users'[id].transactions)
                      /\ runs'[r].usersUpdated = runs[r].usersUpdated + 1
                      /\ runs'[r].totalProfitDistributed =
                            runs[r].totalProfitDistributed + runs[r].profit]_vars

\* One cycle in which the update of account 1 failed and account 2, after it
\* in the iteration, was settled: account 1 is as it was, usersUpdated is 1.
C12_Witness ==
    /\ Len(runs) = 1 /\ runs[1].pc = "done"
    /\ runs[1].usersUpdated = NumAccounts - 1
    /\ runs[1].totalProfitDistributed = SumGains(NumAccounts)
    /\ users[1] = NewUser(InitialBalance(1), TRUE)
    /\ users[2].balance = -10
    /\ Len(users[2].transactions) = 1

-----------------------------------------------------------------------------
(* Properties of the balance under concurrent writers *)

\* Credits minus debits of the first n ledger entries.
RECURSIVE LedgerSum(_, _)
LedgerSum(ledger, n) ==
    IF n = 0 THEN 0
    ELSE LedgerSum(ledger, n - 1)
            + (IF ledger[n].type = "credit" THEN ledger[n].amount
               ELSE IF ledger[n].type = "debit" THEN -ledger[n].amount
               ELSE 0)

\* The deltas the routes reported as applied to account a, among the first n
\* requests: withdrawals accepted, rejections and deposit approvals.
RECURSIVE AppliedSum(_, _)
AppliedSum(a, n) ==
    IF n = 0 THEN 0
    ELSE AppliedSum(a, n - 1)
            + (IF requests[n].account # a \/ requests[n].pc # "done" THEN 0
               ELSE IF requests[n].op = "withdraw"
                    THEN (IF requests[n].status = "refused" THEN 0 ELSE -requests[n].amount)
               ELSE requests[n].amount)

\* The requests did not overlap one another: there is one request, or a
\* withdrawal followed by its rejection (which starts only once the withdrawal
\* is pending), so only the settlement cycle can interleave with a request.
RequestsInSequence ==
    \/ Len(requests) <= 1
    \/ Len(requests) = 2 /\ requests[2].op = "reject" /\ requests[2].of = 1

\* C13: whatever the interleaving of a withdrawal request, a rejection or a
\* deposit approval with the settlement cycle, once all of them have finished
\* the balance of every account is its starting balance plus the settlement
\* profits (its ledger) plus every delta the routes reported as applied.
C13_NoLostUpdate ==
    (/\ \A r \in 1..Len(runs) : runs[r].pc \in {"done", "skipped"}
     /\ \A q \in 1..Len(requests) : requests[q].pc = "done"
     /\ RequestsInSequence) =>
            \A a \in Accounts :
                users[a].balance =
                    InitialBalance(a)
                        + LedgerSum(users[a].transactions, Len(users[a].transactions))
                        + AppliedSum(a, Len(requests))

\* Account 1 starts with 150; a withdrawal of 50 read the balance before the
\* cycle credited 10 and saved after it: the balance is 100, the credit is lost.
C13_Witness ==
    /\ Len(runs) = 1 /\ runs[1].pc = "done"
    /\ Len(requests) = 1 /\ requests[1].pc = "done" /\ requests[1].status = "pending"
    /\ requests[1].account = 1 /\ requests[1].amount = 50
    /\ Len(users[1].transactions) = 1
    /\ users[1].transactions[1].type = "credit"
    /\ users[1].balance = 100

-----------------------------------------------------------------------------
(* Properties of the manual triggers *)

\* C14: a manual trigger does what a scheduled firing of the same job at that
\* instant does. On a market off day neither executes the body of its job: the
\* cron callback is logged as skipped and starts no run, the manual trigger
\* starts no body either; on any other day both start the same body, the run
\* of that job that begins with its User.find.
C14_ManualAsScheduled ==
    [][/\ \A k \in NewFirings :
             /\ firings'[k].skipped <=> OffDayAt(clock')
             /\ ~firings'[k].skipped =>
                    \E j \in NewRuns :
                        /\ runs'[j].trigger = "cron" /\ runs'[j].pc = "find"
                        /\ runs'[j].kind = firings'[k].job
       /\ \A j \in NewRuns :
             runs'[j].trigger = "manual" =>
                 runs'[j].pc = IF OffDayAt(clock) THEN "skipped" ELSE "find"]_vars

\* Saturday in Asia/Dhaka: the scheduled deactivation firing of this minute was
\* skipped, the manual deactivation of the same minute turned account 1 off.
C14_Witness ==
    /\ \E k \in 1..Len(firings) :
          /\ firings[k].job = "deactivation" /\ firings[k].skipped
          /\ firings[k].at = clock
    /\ \E r \in 1..Len(runs) :
          /\ runs[r].kind = "deactivation" /\ runs[r].trigger = "manual"
          /\ runs[r].startedAt = clock /\ runs[r].pc = "done"
    /\ ~users[1].aiStatus
    /\ Len(users[1].transactions) = 1
    /\ users[1].transactions[1].type = "system"

-----------------------------------------------------------------------------
(* Properties of the settlement across one day *)

\* The calendar day of instant `at` in the configured time zone, counted from
\* the first day of the clock.
LocalDate(at) == (at + UtcOffset(timeZone)) \div MinutesPerDay

IsProfitEntry(e) == e.type \in {"credit", "debit"}

\* C15: no account holds two profit or loss entries of scheduled settlements
\* that were applied on the same calendar day of the configured time zone.
C15_OncePerDay ==
    \A a \in Accounts :
        \A i, j \in 1..Len(users[a].transactions) :
            LET ei == users[a].transactions[i]
                ej == users[a].transactions[j]
            IN  (i < j /\ IsProfitEntry(ei) /\ IsProfitEntry(ej)) =>
                    LocalDate(ei.createdAt) # LocalDate(ej.createdAt)

\* The run time was moved from 06:00 to 23:59 after the 06:00 settlement:
\* account 1 was credited at both times of the same Monday, balance 170.
C15_Witness ==
    /\ \E c \in 1..Len(calls) : calls[c].op = "update" /\ calls[c].pc = "done"
    /\ Len(firings) >= 2
    /\ \E i, j \in 1..Len(users[1].transactions) :
          /\ i < j
          /\ users[1].transactions[i].type = "credit"
          /\ users[1].transactions[j].type = "credit"
          /\ LocalDate(users[1].transactions[i].createdAt)
                = LocalDate(users[1].transactions[j].createdAt)
    /\ users[1].balance = 170

-----------------------------------------------------------------------------
(* Properties of calculateProfitPercentage *)

\* The calls of calculateProfitPercentage that have returned.
Returned == {c \in 1..Len(calls) : calls[c].op = "percentage" /\ calls[c].pc = "done"}

\* x is a number of hundredths nearest to profitAmount / previousBalance * 100.
RoundedToTwoDecimals(x, profitAmount, previousBalance) ==
    /\ 100 % x.den = 0
    /\ 2 * Abs(x.num * (100 \div x.den) * previousBalance - profitAmount * 100 * 100)
          <= Abs(previousBalance)

\* C16: calculateProfitPercentage returns a value for every profit and balance;
\* for previousBalance = 0 it is 100, -100 or 0 as the profit is positive,
\* negative or zero, and otherwise it is profit / previousBalance * 100 rounded
\* to two decimals: 5 for 10 of 200 and 6.67 for 10 of 150.
C16_PercentageBoundary ==
    \A c \in Returned :
        LET profitAmount    == calls[c].profitAmount
            previousBalance == calls[c].previousBalance
        IN  /\ IsSome(calls[c].result)
            /\ (previousBalance = 0 /\ profitAmount > 0) => Val(calls[c].result) = RatInt(100)
            /\ (previousBalance = 0 /\ profitAmount < 0) => Val(calls[c].result) = RatInt(-100)
            /\ (previousBalance = 0 /\ profitAmount = 0) => Val(calls[c].result) = RatInt(0)
            /\ previousBalance # 0 =>
                   RoundedToTwoDecimals(Val(calls[c].result), profitAmount, previousBalance)
            /\ (previousBalance = 200 /\ profitAmount = 10) => Val(calls[c].result) = RatInt(5)
            /\ (previousBalance = 150 /\ profitAmount = 10) =>
                   Val(calls[c].result) = [num |-> 667, den |-> 100]

\* A loss on an empty balance has returned -100.
C16_Witness ==
    \E c \in Returned :
        /\ calls[c].previousBalance = 0 /\ calls[c].profitAmount < 0
        /\ calls[c].result = Some(RatInt(-100))

-----------------------------------------------------------------------------
(* Properties of the ledger *)

IsPrefix(old, new) == Len(old) <= Len(new) /\ SubSeq(new, 1, Len(old)) = old

SignedAmount(e) ==
    IF e.type = "credit" THEN e.amount ELSE IF e.type = "debit" THEN -e.amount ELSE 0

\* C18: with only settlement and deactivation runs writing, the balance of
\* every account is its initial balance plus its credit entries minus its debit
\* entries; a step that changes a balance appends exactly one entry, a credit
\* or debit of that change, and a step that appends credit or debit entries
\* appends one and changes the balance by its signed amount.
C18_BalanceMatchesLedger ==
    /\ [](\A a \in Accounts :
            users[a].balance
               = InitialBalance(a) + LedgerSum(users[a].transactions,
                                               Len(users[a].transactions)))
    /\ [][\A a \in Accounts :
            LET old == users[a].transactions
                new == users'[a].transactions
            IN  /\ users'[a].balance # users[a].balance =>
                      /\ AppendsOne(old, new)
                      /\ Last(new).type \in {"credit", "debit"}
                      /\ SignedAmount(Last(new)) = users'[a].balance - users[a].balance
                /\ (\E k \in (Len(old) + 1)..Len(new) : new[k].type \in {"credit", "debit"}) =>
                      /\ AppendsOne(old, new)
                      /\ users'[a].balance = users[a].balance + SignedAmount(Last(new))]_vars

\* Account 1 was credited 10 and then deactivated, account 2 was debited 10:
\* balances 160 and -10 with the entries that account for them.
C18_Witness ==
    /\ users[1].balance = InitialBalance(1) + 10
    /\ Len(users[1].transactions) = 2
    /\ users[1].transactions[1].type = "credit"
    /\ users[1].transactions[2].type = "system"
    /\ users[2].balance = InitialBalance(2) - 10
    /\ users[2].transactions[1].type = "debit"

-----------------------------------------------------------------------------
(* Properties of overlapping runs *)

InFlight(r) == runs[r].pc \notin {"done", "skipped"}

\* C19: no scheduled settlement firing runs beside an earlier settlement run:
\* a firing that arrives while a settlement run, scheduled or manual, has not
\* finished is dropped, so two settlement runs are never in flight together.
C19_SingleSettlementInFlight ==
    \A r1, r2 \in 1..Len(runs) :
        (/\ r1 < r2
         /\ runs[r1].kind = "balance" /\ runs[r2].kind = "balance"
         /\ runs[r2].trigger = "cron") =>
            ~(InFlight(r1) /\ InFlight(r2))

\* The 06:00 firing arrived while a manual settlement was executing; both runs
\* settled account 1, which was credited twice at that instant.
C19_Witness ==
    /\ \E r1, r2 \in 1..Len(runs) :
          /\ r1 < r2
          /\ runs[r1].kind = "balance" /\ runs[r1].trigger = "manual"
          /\ runs[r2].kind = "balance" /\ runs[r2].trigger = "cron"
          /\ runs[r1].startedAt < runs[r2].startedAt
          /\ runs[r1].usersUpdated = 1 /\ runs[r2].usersUpdated = 1
    /\ Len(users[1].transactions) = 2
    /\ users[1].transactions[1].createdAt = users[1].transactions[2].createdAt
    /\ users[1].balance = 170

\* C20: when the loop applies a profit to an account, the stored balance is
\* still the previousBalance the cycle read, so the profit and rule applied are
\* what the rule table resolves for the balance that is incremented, and the
\* percentage is the percentage of that balance.
C20_ProfitOfCurrentBalance ==
    [][\A r \in 1..Len(runs) :
          (SettleStep(r) /\ runs[r].profit # 0) =>
              LET id == Settled(r).id
              IN  /\ users[id].balance = Settled(r).balance
                  /\ [profit |-> runs[r].profit, ruleId |-> runs[r].ruleId]
                        \in calculateProfit(rules, users[id].balance)
                  /\ calculateProfitPercentage(runs[r].profit, Settled(r).balance)
                        = calculateProfitPercentage(runs[r].profit, users[id].balance)]_vars

\* The cycle read balance 150 and resolved rule 100..200 (+10); two deposits of
\* 50 were approved since, so the balance about to be incremented is 250, for
\* which the table has no rule.
C20_Witness ==
    \E r \in 1..Len(runs) :
        /\ runs[r].kind = "balance" /\ runs[r].pc = "update"
        /\ Settled(r).id = 1 /\ Settled(r).balance = 150
        /\ runs[r].profit = 10
        /\ users[1].balance = 250
        /\ calculateProfit(rules, users[1].balance) = {[profit |-> 0, ruleId |-> None]}
        /\ \A q \in 1..Len(requests) : requests[q].op = "deposit" /\ requests[q].pc = "done"

-----------------------------------------------------------------------------
(* Properties of settlement and deactivation running together *)

\* C21: the loop writes only to participating accounts: when it comes to update
\* an account whose aiStatus is false in the store, switched off by the toggle
\* or by a deactivation run since the cycle's User.find, it leaves the account's
\* document as it is.
C21_OnlyParticipatingSettled ==
    [][\A r \in 1..Len(runs) :
          (SettleStep(r) /\ ~users[Settled(r).id].aiStatus) =>
              users'[Settled(r).id] = users[Settled(r).id]]_vars

\* Account 1 was deactivated by a deactivation run, was not switched on again,
\* and was credited after that: the system entry lies before the credit.
C21_Witness ==
    /\ used.toggles = 0
    /\ ~users[1].aiStatus
    /\ Len(users[1].transactions) = 2
    /\ users[1].transactions[1].type = "system"
    /\ users[1].transactions[2].type = "credit"
    /\ users[1].balance = InitialBalance(1) + 10

\* C22: the scheduled deactivation of a cycle does not start while the
\* scheduled settlement run of that cycle, fired one minute earlier, is still
\* in flight.
C22_DeactivationAfterSettlement ==
    \A r1, r2 \in 1..Len(runs) :
        (/\ runs[r1].kind = "balance" /\ runs[r1].trigger = "cron"
         /\ runs[r2].kind = "deactivation" /\ runs[r2].trigger = "cron"
         /\ runs[r2].startedAt = runs[r1].startedAt + 1) =>
            ~InFlight(r1)

\* The 06:01 deactivation has finished and cleared the flag of account 1 while
\* the 06:00 settlement run has not yet updated that account.
C22_Witness ==
    \E r1, r2 \in 1..Len(runs) :
        /\ runs[r1].kind = "balance" /\ runs[r1].trigger = "cron"
        /\ runs[r1].pc = "update" /\ Settled(r1).id = 1
        /\ runs[r2].kind = "deactivation" /\ runs[r2].trigger = "cron"
        /\ runs[r2].startedAt = runs[r1].startedAt + 1
        /\ runs[r2].pc = "done"
        /\ ~users[1].aiStatus
        /\ Len(users[1].transactions) = 1
        /\ users[1].transactions[1].type = "system"
        /\ users[1].balance = 150

-----------------------------------------------------------------------------
(* Properties of the scheduler's configuration *)

AllCallsDone == \A c \in 1..Len(calls) : calls[c].pc = "done"

\* The live task of `job` runs at the persisted time, in the persisted zone.
ArmedAsPersisted(job, id, expr) ==
    /\ IsSome(id)
    /\ \E t \in tasks :
          /\ t.id = Val(id) /\ t.job = job
          /\ t.hour = expr.hour /\ t.minute = expr.minute
          /\ t.timezone = getCurrentSchedule.timeZone

\* C23: once every initScheduledJobs and updateCronSchedule call has completed,
\* whatever their interleaving, the armed jobs, this.timeZone and
\* this.marketOffDays are those of the persisted settings, which is what
\* getCurrentSchedule returns.
C23_ArmedIsPersisted ==
    AllCallsDone =>
        LET parsed == ParseTime(getCurrentSchedule.balanceUpdateTime)
        IN  /\ ArmedAsPersisted("balance", balanceUpdateJob,
                                BalanceCron(parsed.hours, parsed.minutes))
            /\ ArmedAsPersisted("deactivation", deactivationJob,
                                DeactivationCron(parsed.hours, parsed.minutes))
            /\ timeZone = getCurrentSchedule.timeZone
            /\ marketOffDays = getCurrentSchedule.marketOffDays

\* The start-up call read the empty Settings collection before an update to
\* 23:59 UTC was stored and armed, and resumed after it: the settings say 23:59
\* UTC, the jobs are armed at 06:00 and 06:01 Asia/Dhaka.
C23_Witness ==
    /\ AllCallsDone
    /\ Len(calls) = 2
    /\ calls[2].result = Some([success |-> TRUE])
    /\ getCurrentSchedule.balanceUpdateTime = <<"2", "3", ":", "5", "9">>
    /\ getCurrentSchedule.timeZone = "UTC"
    /\ timeZone = DefaultTimeZone
    /\ \E t \in tasks : t.id = Val(balanceUpdateJob) /\ t.hour = 6 /\ t.minute = 0
                          /\ t.timezone = DefaultTimeZone

-----------------------------------------------------------------------------
(* Properties of the scheduler's life cycle *)

\* stopAllJobs has returned and initScheduledJobs has not been called since.
Stopped ==
    \E k \in 1..Len(calls) :
        /\ calls[k].op = "stop"
        /\ \A j \in (k + 1)..Len(calls) : calls[j].op # "init"

StopStep == Len(calls') = Len(calls) + 1 /\ Last(calls').op = "stop"

\* C24: once stopAllJobs has returned, no callback of the settlement or the
\* deactivation job is invoked until initScheduledJobs is called again; and
\* stopAllJobs leaves the runs in flight and the accounts as they are.
C24_NoFiringAfterStop ==
    [][/\ Stopped => NewFirings = {}
       /\ StopStep => (runs' = runs /\ users' = users)]_vars

\* stopAllJobs returned while the update to 23:59 was suspended on its store
\* write; the update resumed and armed both jobs, and the callback of the
\* task it armed (the one balanceUpdateJob holds, which stopAllJobs had set to
\* null) was invoked at 23:59.
C24_Witness ==
    /\ Stopped
    /\ \A c \in 1..Len(calls) : calls[c].op = "init" => c = 1
    /\ \E c \in 1..Len(calls) :
          calls[c].op = "update" /\ calls[c].result = Some([success |-> TRUE])
    /\ \E k \in 1..Len(firings) :
          /\ firings[k].job = "balance"
          /\ Some(firings[k].task) = balanceUpdateJob
          /\ firings[k].at % MinutesPerDay = (23 * 60 + 59 - UtcOffset("Asia/Dhaka"))

LiveTasks(job) == {t \in tasks : t.job = job}

\* The step assigns a new task to the job field `id`: the task the field held
\* before is not live after the step.
Rearmed(id, idNext) ==
    (IsSome(idNext) /\ idNext # id /\ IsSome(id)) => \A t \in tasks' : t.id # Val(id)

\* C25: under any interleaving of initScheduledJobs, updateCronSchedule and
\* stopAllJobs at most one task is live for the settlement job and at most one
\* for the deactivation job, namely the one the job's field holds; the step
\* that arms a job also stops the task the job had.
C25_OneArmPerJob ==
    /\ [](/\ Cardinality(LiveTasks("balance")) <= 1
          /\ Cardinality(LiveTasks("deactivation")) <= 1
          /\ \A t \in LiveTasks("balance") : Some(t.id) = balanceUpdateJob
          /\ \A t \in LiveTasks("deactivation") : Some(t.id) = deactivationJob)
    /\ [][/\ Rearmed(balanceUpdateJob, balanceUpdateJob')
          /\ Rearmed(deactivationJob, deactivationJob')]_vars

\* Both jobs were armed at start-up and armed again by a schedule update: tasks
\* 1 and 2 are stopped, tasks 3 and 4 are the live ones.
C25_Witness ==
    /\ used.tasksCreated = 4
    /\ used.stops = 0
    /\ balanceUpdateJob = Some(3) /\ deactivationJob = Some(4)
    /\ {t.id : t \in tasks} = {3, 4}
    /\ \E c \in 1..Len(calls) : calls[c].op = "update" /\ calls[c].pc = "done"

-----------------------------------------------------------------------------
(* Properties of failing calls *)

\* The scheduler as the start-up call leaves it when the Settings collection
\* is empty: nothing persisted, the defaults in memory, tasks 1 and 2 armed.
AsStartupLeftIt ==
    /\ settings = None
    /\ timeZone = DefaultTimeZone
    /\ marketOffDays = DefaultMarketOffDays
    /\ balanceUpdateJob = Some(1)
    /\ deactivationJob = Some(2)
    /\ tasks = {NewTask(1, "balance", BalanceCron(6, 0), DefaultTimeZone),
                NewTask(2, "deactivation", DeactivationCron(6, 0), DefaultTimeZone)}

\* C26: an updateCronSchedule call that returns success: false, having failed
\* at validation, at the store write or at re-arming, has changed nothing. For
\* the one update that follows the completed start-up: the settings, the time
\* zone and off days in memory and both armed jobs are as the start-up left
\* them.
C26_FailedUpdateNoEffect ==
    (/\ Len(calls) = 2
     /\ calls[2].op = "update" /\ calls[2].alone
     /\ calls[2].pc = "done" /\ calls[2].result = Some([success |-> FALSE])) =>
        AsStartupLeftIt

\* The update to 23:59 Mars/Phobos returned success: false: it is persisted,
\* this.timeZone is Mars/Phobos, the settlement task is stopped and the
\* deactivation task still armed at 06:01.
C26_Witness ==
    /\ Len(calls) = 2
    /\ calls[2].op = "update" /\ calls[2].alone
    /\ calls[2].pc = "done" /\ calls[2].result = Some([success |-> FALSE])
    /\ IsSome(settings) /\ Val(settings).timeZone = "Mars/Phobos"
    /\ timeZone = "Mars/Phobos"
    /\ balanceUpdateJob = Some(1)
    /\ {t.id : t \in tasks} = {2}

\* Both job fields hold a live task of their job.
BothArmed ==
    /\ IsSome(balanceUpdateJob) /\ IsSome(deactivationJob)
    /\ \E t \in tasks : t.id = Val(balanceUpdateJob) /\ t.job = "balance"
    /\ \E t \in tasks : t.id = Val(deactivationJob) /\ t.job = "deactivation"

InitFinished(c) == calls[c].op = "init" /\ calls[c].pc \in {"done", "rejected"}

\* C27: initScheduledJobs always finishes with both jobs armed; when its read
\* of the settings failed they are armed at 06:00 and 06:01 in the default time
\* zone, with the default off days.
C27_StartupFallback ==
    \A c \in 1..Len(calls) :
        InitFinished(c) =>
            /\ BothArmed
            /\ calls[c].result = Some([success |-> FALSE]) =>
                  /\ \E t \in tasks : /\ t.id = Val(balanceUpdateJob)
                                      /\ t.hour = 6 /\ t.minute = 0
                                      /\ t.timezone = DefaultTimeZone
                  /\ \E t \in tasks : /\ t.id = Val(deactivationJob)
                                      /\ t.hour = 6 /\ t.minute = 1
                                      /\ t.timezone = DefaultTimeZone
                  /\ timeZone = DefaultTimeZone
                  /\ marketOffDays = DefaultMarketOffDays

\* The process started on settings whose timeZone is Mars/Phobos: the call has
\* finished, this.timeZone is Mars/Phobos and no task is live.
C27_Witness ==
    /\ InitFinished(1)
    /\ IsSome(settings) /\ Val(settings).timeZone = "Mars/Phobos"
    /\ timeZone = "Mars/Phobos"
    /\ balanceUpdateJob = None /\ deactivationJob = None
    /\ tasks = {}

\* The read of the settings failed at start-up and the fallback armed 06:00
\* and 06:01 Asia/Dhaka.
C27_FallbackReached ==
    /\ InitFinished(1)
    /\ calls[1].result = Some([success |-> FALSE])
    /\ BothArmed
    /\ timeZone = DefaultTimeZone

-----------------------------------------------------------------------------
(* Properties of the two jobs of one cycle *)

\* Firing k is the deactivation firing of the cycle whose settlement firing is
\* j: the two tasks were armed together and fired one minute apart.
SameCycle(j, k) ==
    /\ firings[j].job = "balance" /\ firings[k].job = "deactivation"
    /\ firings[k].task = firings[j].task + 1
    /\ firings[k].at = firings[j].at + 1

\* C28: the deactivation firing of a cycle executes its body if and only if the
\* settlement firing of that cycle, one minute earlier, executed its body.
C28_SkippedTogether ==
    \A j, k \in 1..Len(firings) :
        SameCycle(j, k) => (firings[k].skipped <=> firings[j].skipped)

\* Run time 23:59 UTC, off days Sunday and Saturday: the settlement firing of
\* Sunday 23:59 was skipped, the deactivation firing of Monday 00:00 ran and
\* deactivated account 1, which was not settled.
C28_Witness ==
    /\ \E j, k \in 1..Len(firings) :
          /\ SameCycle(j, k)
          /\ firings[j].skipped /\ ~firings[k].skipped
          /\ firings[k].at % MinutesPerDay = 0
          /\ LocalDay(firings[k].at, timeZone) = 1
    /\ ~users[1].aiStatus
    /\ Len(users[1].transactions) = 1
    /\ users[1].transactions[1].type = "system"
    /\ users[1].balance = 150

-----------------------------------------------------------------------------
(* Properties of PUT /market-off-days *)

\* Every call but c has completed.
OthersDone(c) == \A k \in 1..Len(calls) : k # c => calls[k].pc = "done"

\* Hour, minute and zone of the live task of `job`.
ArmedAt(live, job) ==
    {[hour |-> t.hour, minute |-> t.minute, timezone |-> t.timezone] :
        t \in {x \in live : x.job = job}}

\* C29: PUT /market-off-days changes the off days only. With every other call
\* completed, its store write leaves the persisted run time and time zone as
\* they are, and its re-arming leaves the time and zone of both jobs and
\* this.timeZone as they are.
C29_OffDaysOnly ==
    [][\A c \in 1..Len(calls) :
          (calls[c].op = "offdays" /\ OthersDone(c) /\ calls'[c] # calls[c]) =>
              /\ calls[c].pc = "store" =>
                    /\ getCurrentSchedule'.balanceUpdateTime
                          = getCurrentSchedule.balanceUpdateTime
                    /\ getCurrentSchedule'.timeZone = getCurrentSchedule.timeZone
              /\ calls[c].pc = "resume" =>
                    /\ timeZone' = timeZone
                    /\ ArmedAt(tasks', "balance") = ArmedAt(tasks, "balance")
                    /\ ArmedAt(tasks', "deactivation") = ArmedAt(tasks, "deactivation")]_vars

\* The route read the defaults, an update to 23:59 UTC then completed, and the
\* route's write put 06:00 Asia/Dhaka back with the new off days [5]; both are
\* persisted and armed.
C29_Witness ==
    /\ AllCallsDone
    /\ \E c \in 1..Len(calls) :
          /\ calls[c].op = "update" /\ calls[c].result = Some([success |-> TRUE])
          /\ calls[c].time = Some(<<"2", "3", ":", "5", "9">>)
          /\ calls[c].timeZone = Some("UTC")
    /\ \E c \in 1..Len(calls) :
          /\ calls[c].op = "offdays" /\ calls[c].result = Some([success |-> TRUE])
    /\ settings = Some([cronScheduleTime |-> DefaultScheduleTime,
                        timeZone |-> DefaultTimeZone,
                        marketOffDays |-> <<RatInt(5)>>])
    /\ timeZone = DefaultTimeZone
    /\ ArmedAt(tasks, "balance") = {[hour |-> 6, minute |-> 0, timezone |-> DefaultTimeZone]}

\* The step of run r at calculateProfit whose outcome is none of those the
\* rule table gives for the balance read: the lookup failed.
LookupFailStep(r) ==
    /\ runs[r].kind = "balance" /\ runs[r].pc = "calc"
    /\ runs'[r] # runs[r]
    /\ ~\E res \in calculateProfit(rules, Settled(r).balance) :
            /\ runs'[r].pc = "update"
            /\ runs'[r].profit = res.profit /\ runs'[r].ruleId = res.ruleId

\* C30: a rule lookup that fails gives profit 0 for that account and the loop
\* body goes on; the update of a zero outcome changes neither the balance nor
\* the ledger of the account, and the loop continues with the next account.
C30_LookupFailureAbsorbed ==
    [][\A r \in 1..Len(runs) :
          /\ LookupFailStep(r) =>
                /\ runs'[r] = [runs[r] EXCEPT !.profit = 0, !.ruleId = None, !.pc = "update"]
                /\ users' = users
          /\ (SettleStep(r) /\ runs[r].profit = 0) =>
                LET id == Settled(r).id
                IN  /\ users'[id].balance = users[id].balance
                    /\ users'[id].transactions = users[id].transactions
                    /\ \A a \in Accounts \ {id} : users'[a] = users[a]
                    /\ IF runs[r].idx < Len(runs[r].activeUsers)
                       THEN /\ runs'[r].pc = "calc"
                            /\ runs'[r].idx = runs[r].idx + 1
                            /\ runs'[r].activeUsers = runs[r].activeUsers
                       ELSE runs'[r].pc = "done"]_vars

\* One cycle in which the lookup for account 1 (balance 150, rule +10) failed:
\* the zero branch ran for it, leaving balance and ledger, and account 2 after
\* it was settled.
C30_Witness ==
    /\ Len(runs) = 1 /\ runs[1].pc = "done"
    /\ users[1].balance = InitialBalance(1)
    /\ users[1].transactions = <<>>
    /\ IsSome(users[1].lastProfitCalculation)
    /\ users[2].balance = InitialBalance(2) - 10
    /\ Len(users[2].transactions) = 1
    /\ runs[1].usersUpdated = 1

====
